---- MODULE Spec2Model ----
(***************************************************************************)
(* Event query / authorization / versioning subsystem of the events        *)
(* management application: EventService (event.service.ts), the auth       *)
(* middleware (middleware.ts) and the /api/events/[id] route handlers.     *)
(***************************************************************************)
EXTENDS Integers, Sequences, FiniteSets, TLC

VARIABLES store, now, calls, last, q

vars == <<store, now, calls, last, q>>

(***************************************************************************)
(* Bounds of the model.                                                    *)
(***************************************************************************)
\* Rows the events table can hold (ids handed out by UUID() are 1..MaxEvents).
MaxEvents == 2
\* Service calls started in one run of concurrent calls; also the range of
\* the clock there.
MaxCalls == 3
\* Requests handled in one run of the route handlers.
MaxRequests == 2

(***************************************************************************)
(* Values.                                                                 *)
(***************************************************************************)
NULL == "null"

Procs == {"p1", "p2"}

\* Principals.  User ids are non-empty strings (verifyToken rejects an empty
\* userId, and an empty x-organizer-id header is falsy).
Users == {"alice", "bob"}
Roles == {"user", "organizer", "admin"}
Statuses == {"draft", "published", "cancelled", "completed", "archived"}
Visibilities == {"public", "private", "unlisted"}
Operations == {"read", "update", "delete", "publish"}

EventIds == 1..MaxEvents

\* The metadata column: SQL NULL, the empty JSON object {} (the column's
\* default JSON_OBJECT() and createEventSchema's default), or a non-empty object.
Metadatas == {NULL, "empty", "nft"}

\* Error codes (enum ErrorCode).
NOT_FOUND == "NOT_FOUND"
FORBIDDEN == "FORBIDDEN"
CONFLICT == "CONFLICT"
UNAUTHORIZED == "UNAUTHORIZED"
DATABASE_ERROR == "DATABASE_ERROR"
OK == "OK"

\* An optional value (a field a request may omit, a nullable result) is the
\* empty set when absent and a singleton when present.
None == {}
Some(v) == {v}
Has(o) == o # {}
Val(o) == CHOOSE v \in o : TRUE

(***************************************************************************)
(* Strings are sequences of one-character strings.                         *)
(***************************************************************************)
IsSpace(c) == c = " "

Lower(c) == IF c = "A" THEN "a" ELSE IF c = "B" THEN "b" ELSE c

ToLowerCase(s) == [i \in 1..Len(s) |-> Lower(s[i])]

RECURSIVE TrimStart(_)
TrimStart(s) ==
  IF s # <<>> /\ IsSpace(Head(s)) THEN TrimStart(Tail(s)) ELSE s

RECURSIVE TrimEnd(_)
TrimEnd(s) ==
  IF s # <<>> /\ IsSpace(s[Len(s)]) THEN TrimEnd(SubSeq(s, 1, Len(s) - 1)) ELSE s

Trim(s) == TrimEnd(TrimStart(s))

\* [a-z0-9\s-]
SlugChar(c) == c \in {"a", "b", "c", "1", " ", "-"}

RemoveSpecial(s) == SelectSeq(s, SlugChar)

\* .replace(/\s+/g, '-')
RECURSIVE SpacesToHyphen(_)
SpacesToHyphen(s) ==
  IF s = <<>> THEN <<>>
  ELSE IF IsSpace(Head(s))
       THEN <<"-">> \o SpacesToHyphen(TrimStart(s))
       ELSE <<Head(s)>> \o SpacesToHyphen(Tail(s))

\* .replace(/-+/g, '-')
RECURSIVE CollapseHyphens(_)
CollapseHyphens(s) ==
  IF Len(s) < 2 THEN s
  ELSE IF s[1] = "-" /\ s[2] = "-"
       THEN CollapseHyphens(Tail(s))
       ELSE <<Head(s)>> \o CollapseHyphens(Tail(s))

\* .replace(/^-|-$/g, '')
StripHyphens(s) ==
  LET a == IF s # <<>> /\ Head(s) = "-" THEN Tail(s) ELSE s
  IN  IF a # <<>> /\ a[Len(a)] = "-" THEN SubSeq(a, 1, Len(a) - 1) ELSE a

UntitledSlug ==
  <<"u", "n", "t", "i", "t", "l", "e", "d", "-", "e", "v", "e", "n", "t">>

generateSlug(title) ==
  LET slug == StripHyphens(CollapseHyphens(SpacesToHyphen(
                RemoveSpecial(Trim(ToLowerCase(title))))))
  IN  IF slug = <<>> THEN UntitledSlug ELSE slug

\* Titles requests carry.  Texts are kept short: the length limits of the
\* request schemas (title of 3 or more characters, description of 10 or more)
\* are not modelled; the service sets none.
Titles == { <<"A", " ", "b">>, <<"a", "-", "b">>, <<"c", "!">> }

(***************************************************************************)
(* The events table.  store maps the ids of the rows present to the rows.  *)
(***************************************************************************)
\* findById returns the row or null; Exists is "the result is not null".
Exists(st, id) == id \in DOMAIN st

findById(st, id) == st[id]

SlugHolders(st, slug) == {i \in DOMAIN st : st[i].slug = slug}

\* The id UUID() gives the next inserted row.
NextId(st) == Cardinality(DOMAIN st) + 1

\* The row db.insert(events).values(eventData) stores (create, lines 30-40):
\* eventData spreads the request first, then sets slug, organizerId, the
\* dates, currentAttendees and version; a column eventData lacks takes the
\* default of schema.ts (status draft).
NewEvent(id, data, organizerId, t) ==
  [id |-> id,
   slug |-> generateSlug(data.title),
   title |-> data.title,
   description |-> data.description,
   excerpt |-> data.excerpt,
   startDateTime |-> data.startDateTime,
   endDateTime |-> data.endDateTime,
   capacity |-> data.capacity,
   categoryId |-> data.categoryId,
   price |-> data.price,
   currentAttendees |-> 0,
   organizerId |-> organizerId,
   status |-> IF "status" \in DOMAIN data THEN data.status ELSE "draft",
   visibility |-> data.visibility,
   metadata |-> data.metadata,
   version |-> 1,
   createdAt |-> t,
   updatedAt |-> t,
   publishedAt |-> 0]

\* UpdateEventRequest payloads: each field present or omitted.
NoFields == [title |-> None, description |-> None, capacity |-> None,
             visibility |-> None, price |-> None, categoryId |-> None,
             nftMetadata |-> None, status |-> None,
             startDateTime |-> None, endDateTime |-> None,
             version |-> None]

UpdatePayloads ==
  {[NoFields EXCEPT !.title = Some(t)] : t \in Titles}
  \cup {[NoFields EXCEPT !.status = Some(s)] : s \in {"published", "draft"}}
  \cup {[NoFields EXCEPT !.visibility = Some("private")],
        [NoFields EXCEPT !.nftMetadata = Some("nft")]}

PresentFields(data) == {f \in DOMAIN data : Has(data[f])}

\* CreateEventRequest payloads.
CreatePayloads ==
  [title : Titles, description : {<<"d">>}, excerpt : {None},
   startDateTime : {1}, endDateTime : {2}, capacity : {None},
   categoryId : {None}, price : {None},
   visibility : {"public"}, metadata : {"empty"}]

\* update, lines 277-293: the existence and ownership checks.
UpdateAccess(st, id, organizerId) ==
  IF ~Exists(st, id) THEN NOT_FOUND
  ELSE IF findById(st, id).organizerId # organizerId THEN FORBIDDEN
  ELSE OK

\* update, line 322: the title is truthy and differs from the one read.
TitleChanged(data, existing) ==
  /\ Has(data.title)
  /\ Val(data.title) # <<>>
  /\ Val(data.title) # existing.title

\* The slug lookup without the exclusion of the event itself.
SlugConflictAny(st, id, newSlug) == SlugHolders(st, newSlug) # {}

\* update, lines 326-338: another row already holds the new slug.
SlugConflict(st, id, newSlug) == SlugHolders(st, newSlug) \ {id} # {}

\* A publishedAt decision that ignores the request and the row read.
PublishesAlways(data, existing) == TRUE

\* update, lines 344-346: the call moves status into published.
Publishes(data, existing) ==
  /\ Has(data.status)
  /\ Val(data.status) = "published"
  /\ existing.status # "published"

\* The version expression of the UPDATE statement, update line 353:
\* version = version + 1, evaluated by the database on the stored row.
NextVersionLost(row, existing) == existing.version + 1
NextVersion(row, existing) == row.version + 1

\* An UPDATE that writes back the whole row the call read, changed by the
\* request.
ApplyUpdateWholeRow(row, existing, data, t, setSlug, setPublishedAt) ==
  [existing EXCEPT
     !.updatedAt = t,
     !.title = IF Has(data.title) THEN Val(data.title) ELSE @,
     !.visibility = IF Has(data.visibility) THEN Val(data.visibility) ELSE @,
     !.metadata = IF Has(data.nftMetadata) THEN Val(data.nftMetadata) ELSE @,
     !.status = IF Has(data.status) THEN Val(data.status) ELSE @,
     !.slug = IF Has(setSlug) THEN Val(setSlug) ELSE @,
     !.publishedAt = IF Has(setPublishedAt) THEN Val(setPublishedAt) ELSE @,
     !.version = row.version + 1]

\* update, lines 296-355: the row the UPDATE statement leaves, given the
\* stored row, the row the call read first, the updatedAt time, and the slug
\* and publishedAt the call decided to set.
ApplyUpdate(row, existing, data, t, setSlug, setPublishedAt) ==
  [row EXCEPT
     !.updatedAt = t,
     !.title = IF Has(data.title) THEN Val(data.title) ELSE @,
     !.description = IF Has(data.description) THEN Val(data.description) ELSE @,
     !.capacity = IF Has(data.capacity) THEN data.capacity ELSE @,
     !.visibility = IF Has(data.visibility) THEN Val(data.visibility) ELSE @,
     !.price = IF Has(data.price) THEN data.price ELSE @,
     !.categoryId = IF Has(data.categoryId) THEN data.categoryId ELSE @,
     !.metadata = IF Has(data.nftMetadata) THEN Val(data.nftMetadata) ELSE @,
     !.status = IF Has(data.status) THEN Val(data.status) ELSE @,
     !.startDateTime = IF Has(data.startDateTime) THEN Val(data.startDateTime) ELSE @,
     !.endDateTime = IF Has(data.endDateTime) THEN Val(data.endDateTime) ELSE @,
     !.slug = IF Has(setSlug) THEN Val(setSlug) ELSE @,
     !.publishedAt = IF Has(setPublishedAt) THEN Val(setPublishedAt) ELSE @,
     !.version = NextVersion(row, existing)]

\* The unique index on events.slug (schema.ts line 16) rejects the statement.
UniqueViolation(st, id, setSlug) ==
  Has(setSlug) /\ SlugHolders(st, Val(setSlug)) \ {id} # {}

\* An archiving statement that also counts as a version.
ApplyDeleteVersioned(row, t) ==
  [row EXCEPT !.status = "archived", !.updatedAt = t, !.version = @ + 1]

\* delete, lines 408-414.
ApplyDelete(row, t) == [row EXCEPT !.status = "archived", !.updatedAt = t]

(***************************************************************************)
(* EventService calls as processes: one step per awaited database call,    *)
(* so that calls of concurrent requests interleave between their steps.    *)
(***************************************************************************)
Idle == [pc |-> "idle"]

\* What a finished call leaves: its outcome, the row it read first and the
\* row it returns.
Finished(op, id, code, existing, returned) ==
  [op |-> op, id |-> id, code |-> code,
   existing |-> existing, returned |-> returned]

Settle(p, res) ==
  /\ calls' = [calls EXCEPT ![p] = Idle]
  /\ last' = [last EXCEPT !.res = res,
                          !.okUpdates =
                            IF res.op = "update" /\ res.code = OK
                            THEN [@ EXCEPT ![res.id] = @ + 1] ELSE @]

\* A call may start: the run's budget of calls is not used up.
CanStart(p) == calls[p].pc = "idle" /\ now < MaxCalls

Continue(p, c) == calls' = [calls EXCEPT ![p] = c] /\ UNCHANGED last

\* create, lines 18-28: derive the slug and look it up.
CreateBegin(p) ==
  \E data \in CreatePayloads, organizerId \in Users :
    /\ CanStart(p)
    /\ now' = now + 1
    /\ IF SlugHolders(store, generateSlug(data.title)) # {}
       THEN Settle(p, Finished("create", 0, CONFLICT, None, None))
       ELSE Continue(p, [pc |-> "cre_insert", op |-> "create", data |-> data,
                         organizerId |-> organizerId])
    /\ UNCHANGED <<store, q>>

\* create, line 40: the INSERT; the unique index on slug may reject it, and
\* the table holds no more than MaxEvents rows in this model.
CreateInsert(p) ==
  LET c == calls[p]
      slug == generateSlug(c.data.title)
      id == NextId(store)
  IN  /\ c.pc = "cre_insert"
      /\ id \in EventIds
      /\ IF SlugHolders(store, slug) # {}
         THEN /\ Settle(p, Finished("create", 0, DATABASE_ERROR, None, None))
              /\ UNCHANGED store
         ELSE /\ store' = (id :> NewEvent(id, c.data, c.organizerId, now)) @@ store
              /\ Continue(p, [c EXCEPT !.pc = "cre_reread"])
      /\ UNCHANGED <<now, q>>

\* create, lines 43-53: fetch the created row by slug and return it.
CreateReread(p) ==
  LET c == calls[p]
      found == SlugHolders(store, generateSlug(c.data.title))
  IN  /\ c.pc = "cre_reread"
      /\ IF found = {}
         THEN Settle(p, Finished("create", 0, DATABASE_ERROR, None, None))
         ELSE LET id == CHOOSE i \in found : TRUE
              IN  Settle(p, Finished("create", id, OK, None, Some(store[id])))
      /\ UNCHANGED <<store, now, q>>

\* update, lines 277-346 up to the first await after findById: the checks,
\* updateData, and either the slug lookup still to do or the decision on
\* publishedAt.
UpdateStart(p, id, data, organizerId) ==
  /\ calls[p].pc = "idle"
  /\ now' = now + 1
  /\ IF UpdateAccess(store, id, organizerId) # OK
     THEN Settle(p, Finished("update", id, UpdateAccess(store, id, organizerId),
                             None, None))
     ELSE LET existing == findById(store, id)
          IN  Continue(p,
                [pc |-> IF TitleChanged(data, existing)
                        THEN "upd_slug" ELSE "upd_write",
                 op |-> "update", id |-> id, data |-> data,
                 existing |-> existing, t |-> now',
                 setSlug |-> None,
                 setPublishedAt |->
                   IF ~TitleChanged(data, existing) /\ Publishes(data, existing)
                   THEN Some(now') ELSE None])
  /\ UNCHANGED store

UpdateBegin(p) ==
  \E id \in EventIds, data \in UpdatePayloads, organizerId \in Users :
    /\ CanStart(p)
    /\ UpdateStart(p, id, data, organizerId)
    /\ UNCHANGED q

\* update, lines 323-346: the slug lookup, then the decision on publishedAt.
UpdateCheckSlug(p) ==
  LET c == calls[p]
      newSlug == generateSlug(Val(c.data.title))
  IN  /\ c.pc = "upd_slug"
      /\ IF SlugConflict(store, c.id, newSlug)
         THEN Settle(p, Finished("update", c.id, CONFLICT, Some(c.existing), None))
         ELSE Continue(p, [c EXCEPT !.pc = "upd_write",
                                    !.setSlug = Some(newSlug),
                                    !.setPublishedAt =
                                      IF Publishes(c.data, c.existing)
                                      THEN Some(now) ELSE None])
      /\ UNCHANGED <<store, now, q>>

\* The UPDATE statement without its WHERE clause: every row is written.
UpdateWriteAllRows(p) ==
  LET c == calls[p]
  IN  /\ c.pc = "upd_write"
      /\ store' = [i \in DOMAIN store |->
                     ApplyUpdate(store[i], c.existing, c.data, c.t, c.setSlug,
                                 c.setPublishedAt)]
      /\ Continue(p, [c EXCEPT !.pc = "upd_reread"])
      /\ UNCHANGED <<now, q>>

\* update, lines 349-355: the UPDATE statement.
UpdateWrite(p) ==
  LET c == calls[p]
  IN  /\ c.pc = "upd_write"
      /\ IF UniqueViolation(store, c.id, c.setSlug)
         THEN /\ Settle(p, Finished("update", c.id, DATABASE_ERROR,
                                    Some(c.existing), None))
              /\ UNCHANGED store
         ELSE /\ store' = [store EXCEPT ![c.id] =
                   ApplyUpdate(@, c.existing, c.data, c.t, c.setSlug, c.setPublishedAt)]
              /\ Continue(p, [c EXCEPT !.pc = "upd_reread"])
      /\ UNCHANGED <<now, q>>

\* update, lines 358-368: fetch the updated row and return it.
UpdateReread(p) ==
  LET c == calls[p]
  IN  /\ c.pc = "upd_reread"
      /\ Settle(p, Finished("update", c.id, OK, Some(c.existing),
                            Some(findById(store, c.id))))
      /\ UNCHANGED <<store, now, q>>

\* A delete that archives the row before it compares the organizer.
DeleteBeginWriteFirst(p) ==
  \E id \in EventIds, organizerId \in Users :
    /\ CanStart(p)
    /\ now' = now + 1
    /\ IF ~Exists(store, id)
       THEN /\ Settle(p, Finished("delete", id, NOT_FOUND, None, None))
            /\ UNCHANGED store
       ELSE /\ store' = [store EXCEPT ![id] = ApplyDelete(@, now')]
            /\ Settle(p, Finished("delete", id,
                                  UpdateAccess(store, id, organizerId),
                                  None, None))
    /\ UNCHANGED q

\* delete, lines 389-405: the checks.
DeleteBegin(p) ==
  \E id \in EventIds, organizerId \in Users :
    /\ CanStart(p)
    /\ now' = now + 1
    /\ IF UpdateAccess(store, id, organizerId) # OK
       THEN Settle(p, Finished("delete", id, UpdateAccess(store, id, organizerId),
                               None, None))
       ELSE Continue(p, [pc |-> "del_write", op |-> "delete", id |-> id,
                         existing |-> findById(store, id)])
    /\ UNCHANGED <<store, q>>

\* delete, lines 408-416: the UPDATE statement archiving the row.
DeleteWrite(p) ==
  LET c == calls[p]
  IN  /\ c.pc = "del_write"
      /\ store' = [store EXCEPT ![c.id] = ApplyDelete(@, now)]
      /\ Settle(p, Finished("delete", c.id, OK, Some(c.existing), None))
      /\ UNCHANGED <<now, q>>

NoQuery == [kind |-> "none"]

NoResult == Finished("none", 0, OK, None, None)

Init ==
  /\ store = <<>>
  /\ now = 0
  /\ calls = [p \in Procs |-> Idle]
  /\ last = [okUpdates |-> [id \in EventIds |-> 0], res |-> NoResult]
  /\ q = NoQuery

Next ==
  \E p \in Procs :
    \/ CreateBegin(p)
    \/ CreateInsert(p)
    \/ CreateReread(p)
    \/ UpdateBegin(p)
    \/ UpdateCheckSlug(p)
    \/ UpdateWrite(p)
    \/ UpdateReread(p)
    \/ DeleteBegin(p)
    \/ DeleteWrite(p)

Spec == Init /\ [][Next]_vars

(***************************************************************************)
(* Authorization: EventService.verifyEventAccess and verifyOwnership.      *)
(***************************************************************************)
\* verifyEventAccess, lines 457-528: OK when the event is returned, else the
\* code of the AppError thrown.
verifyEventAccessNoRoleCheck(st, eventId, userId, userRole, operation) ==
  IF ~Exists(st, eventId) THEN NOT_FOUND
  ELSE IF userRole = "admin" THEN OK
  ELSE IF operation = "read"
       THEN IF \/ (findById(st, eventId).visibility = "public"
                   /\ findById(st, eventId).status = "published")
               \/ findById(st, eventId).organizerId = userId
            THEN OK ELSE FORBIDDEN
       ELSE IF findById(st, eventId).organizerId # userId THEN FORBIDDEN
       ELSE OK

verifyEventAccess(st, eventId, userId, userRole, operation) ==
  LET event == findById(st, eventId)
  IN  IF ~Exists(st, eventId) THEN NOT_FOUND
      ELSE IF userRole = "admin" THEN OK
      ELSE IF operation = "read"
           THEN IF event.visibility = "public" /\ event.status = "published"
                THEN OK
                ELSE IF event.organizerId = userId THEN OK
                ELSE FORBIDDEN
      ELSE IF operation \in {"update", "delete", "publish"}
           THEN IF event.organizerId # userId THEN FORBIDDEN
                ELSE IF userRole = "user" THEN FORBIDDEN
                ELSE OK
      ELSE FORBIDDEN

\* verifyOwnership, lines 434-442: event?.organizerId === organizerId.
verifyOwnership(st, eventId, organizerId) ==
  Exists(st, eventId) /\ findById(st, eventId).organizerId = organizerId

\* Caller ids a request can present: a user id, or '' for an anonymous caller
\* (GET passes user?.userId || '').
CallerIds == Users \cup {""}

\* The rows the access decision is checked on: every organizer, status and
\* visibility.
AccessRows ==
  {[NewEvent(1, data, o, 0) EXCEPT !.status = s, !.visibility = v] :
     data \in {d \in CreatePayloads : d.title = <<"c", "!">>},
     o \in Users, s \in Statuses, v \in Visibilities}

InitAccess ==
  /\ store \in {<<>>} \cup {(1 :> r) : r \in AccessRows}
  /\ now = 0
  /\ calls = [p \in Procs |-> Idle]
  /\ last = [okUpdates |-> [id \in EventIds |-> 0], res |-> NoResult]
  /\ q \in [kind : {"access"}, userId : CallerIds, userRole : Roles,
            operation : Operations, decision : {"pending"}]

\* One call verifyEventAccess(1, userId, userRole, operation).
VerifyEventAccess ==
  /\ q.kind = "access"
  /\ q.decision = "pending"
  /\ q' = [q EXCEPT !.decision =
             verifyEventAccess(store, 1, q.userId, q.userRole, q.operation)]
  /\ UNCHANGED <<store, now, calls, last>>

NextAccess == VerifyEventAccess

SpecAccess == InitAccess /\ [][NextAccess]_vars

\* C2: the decision of verifyEventAccess for every role, owner or non-owner
\* caller, status, visibility and operation: NOT_FOUND for a missing event
\* (admin included); otherwise admin is granted; read is granted iff the event
\* is public and published or the caller is its organizer; update, delete and
\* publish are granted iff the caller is the organizer and the role is not
\* user, else FORBIDDEN; and the three write operations decide alike.
C2_AccessMatrix ==
  q.decision # "pending" =>
    LET missing == 1 \notin DOMAIN store
        owner == ~missing /\ store[1].organizerId = q.userId
        open == ~missing /\ store[1].visibility = "public"
                         /\ store[1].status = "published"
        granted == q.decision = OK
    IN  /\ missing => q.decision = NOT_FOUND
        /\ (~missing /\ q.userRole = "admin") => granted
        /\ (~missing /\ q.userRole # "admin" /\ q.operation = "read") =>
             (granted <=> (open \/ owner))
        /\ (~missing /\ q.userRole # "admin" /\ q.operation # "read") =>
             /\ granted <=> (owner /\ q.userRole # "user")
             /\ ~granted => q.decision = FORBIDDEN
        /\ \A op1, op2 \in {"update", "delete", "publish"} :
             verifyEventAccess(store, 1, q.userId, q.userRole, op1)
               = verifyEventAccess(store, 1, q.userId, q.userRole, op2)

\* The owner of a draft private event, holding role user, was refused a write.
C2_Witness ==
  /\ q.decision = FORBIDDEN
  /\ q.userRole = "user"
  /\ q.operation = "update"
  /\ 1 \in DOMAIN store
  /\ store[1].organizerId = q.userId
  /\ store[1].status = "draft"
  /\ store[1].visibility = "private"

(***************************************************************************)
(* EventService calls run to completion, as a request handler awaits them: *)
(* the outcome code and the store they leave.                              *)
(***************************************************************************)
\* create, lines 16-66.
create(st, data, organizerId, t) ==
  IF SlugHolders(st, generateSlug(data.title)) # {}
  THEN [code |-> CONFLICT, store |-> st, id |-> 0]
  ELSE [code |-> OK,
        store |-> (NextId(st) :> NewEvent(NextId(st), data, organizerId, t)) @@ st,
        id |-> NextId(st)]

\* update, lines 274-381.
update(st, id, data, organizerId, t) ==
  IF UpdateAccess(st, id, organizerId) # OK
  THEN [code |-> UpdateAccess(st, id, organizerId), store |-> st]
  ELSE LET existing == findById(st, id)
       IN  IF TitleChanged(data, existing)
              /\ SlugConflict(st, id, generateSlug(Val(data.title)))
           THEN [code |-> CONFLICT, store |-> st]
           ELSE [code |-> OK,
                 store |-> [st EXCEPT ![id] =
                   ApplyUpdate(@, existing, data, t,
                     IF TitleChanged(data, existing)
                     THEN Some(generateSlug(Val(data.title))) ELSE None,
                     IF Publishes(data, existing) THEN Some(t) ELSE None)]]

\* delete, lines 386-429.
delete(st, id, organizerId, t) ==
  IF UpdateAccess(st, id, organizerId) # OK
  THEN [code |-> UpdateAccess(st, id, organizerId), store |-> st]
  ELSE [code |-> OK, store |-> [st EXCEPT ![id] = ApplyDelete(@, t)]]

(***************************************************************************)
(* The auth middleware (middleware.ts).  A request carries an optional     *)
(* verified JWT payload (a missing, malformed or expired token is absent)  *)
(* and an optional x-organizer-id header.                                  *)
(***************************************************************************)
Payloads == [userId : Users, role : Roles]

Requests == [token : {None} \cup {Some(t) : t \in Payloads},
             legacy : {None} \cup {Some(u) : u \in Users}]

\* authenticateRequest, lines 33-51: the payload, or absent when it throws.
authenticateRequest(req) == req.token

\* requireOrganizer, lines 69-71.
requireOrganizer(userRole) == userRole \in {"organizer", "admin"}

\* extractOrganizerId, lines 84-102: the id, or absent when it throws.
extractOrganizerId(req) ==
  IF Has(authenticateRequest(req))
     /\ requireOrganizer(Val(authenticateRequest(req)).role)
  THEN Some(Val(authenticateRequest(req)).userId)
  ELSE IF Has(req.legacy) THEN req.legacy
  ELSE None

\* optionalAuth, lines 151-170: the payload, the mock payload of the legacy
\* header, or null.
optionalAuth(req) ==
  IF Has(authenticateRequest(req)) THEN authenticateRequest(req)
  ELSE IF Has(req.legacy)
       THEN Some([userId |-> Val(req.legacy), role |-> "organizer"])
  ELSE None

(***************************************************************************)
(* Responses (api-response.ts): HTTP status, code and error text, and the  *)
(* event in the body of a success.                                         *)
(***************************************************************************)
createSuccessResponse(data, status) ==
  [status |-> status, code |-> OK, error |-> "", data |-> data]

createErrorResponse(error, code, status) ==
  [status |-> status, code |-> code, error |-> error, data |-> None]

createNotFoundResponse(resource) ==
  createErrorResponse(resource \o " not found", NOT_FOUND, 404)

createUnauthorizedResponse ==
  createErrorResponse("Unauthorized access", UNAUTHORIZED, 401)

createForbiddenResponse(message) ==
  createErrorResponse(message, FORBIDDEN, 403)

\* The message of the AppError a service call throws with this code.
ErrorMessage(op, code) ==
  IF code = NOT_FOUND THEN "Event not found"
  ELSE IF code = FORBIDDEN
       THEN "You do not have permission to " \o op \o " this event"
  ELSE IF code = CONFLICT THEN "An event with this title already exists"
  ELSE "Failed to " \o op \o " event"

\* withErrorHandling, lines 12-52: an AppError that escapes the handler is
\* answered with its message and code, and status 500.
withErrorHandling(op, code) == createErrorResponse(ErrorMessage(op, code), code, 500)

(***************************************************************************)
(* Route handlers of /api/events and /api/events/[id]: the response and    *)
(* the store a request leaves.  Request bodies here pass the schema.       *)
(***************************************************************************)
Answer(resp, st) == [resp |-> resp, store |-> st]

\* GET, route.ts lines 39-79, answering a refused read with 403.
GETForbidden(st, req, id) ==
  LET user == optionalAuth(req)
      code == verifyEventAccess(st, id,
                IF Has(user) THEN Val(user).userId ELSE "",
                IF Has(user) THEN Val(user).role ELSE "user", "read")
  IN  IF code = OK
      THEN Answer(createSuccessResponse(Some(findById(st, id)), 200), st)
      ELSE IF code = NOT_FOUND
           THEN Answer(createNotFoundResponse("Event"), st)
           ELSE Answer(createForbiddenResponse(
                         "You do not have permission to read this event"), st)

\* GET, route.ts lines 39-79.
GET(st, req, id) ==
  LET user == optionalAuth(req)
      code == verifyEventAccess(st, id,
                IF Has(user) THEN Val(user).userId ELSE "",
                IF Has(user) THEN Val(user).role ELSE "user", "read")
  IN  IF code = OK
      THEN Answer(createSuccessResponse(Some(findById(st, id)), 200), st)
      ELSE IF code = NOT_FOUND
           THEN Answer(createNotFoundResponse("Event"), st)
           ELSE Answer(createNotFoundResponse("Event"), st)

\* POST, route.test.ts lines 235-256 (the /api/events route).
POST(st, req, data, t) ==
  LET organizerId == extractOrganizerId(req)
  IN  IF ~Has(organizerId) THEN Answer(createUnauthorizedResponse, st)
      ELSE LET r == create(st, data, Val(organizerId), t)
           IN  IF r.code = OK
               THEN Answer(createSuccessResponse(Some(r.store[r.id]), 201), r.store)
               ELSE Answer(withErrorHandling("create", r.code), st)

\* PUT, route.ts lines 84-115.
PUT(st, req, id, data, t) ==
  LET organizerId == extractOrganizerId(req)
  IN  IF ~Has(organizerId) THEN Answer(createUnauthorizedResponse, st)
      ELSE LET r == update(st, id, data, Val(organizerId), t)
           IN  IF r.code = OK
               THEN Answer(createSuccessResponse(Some(r.store[id]), 200), r.store)
               ELSE Answer(withErrorHandling("update", r.code), st)

\* DELETE, route.ts lines 120-149.
DELETE(st, req, id, t) ==
  LET organizerId == extractOrganizerId(req)
  IN  IF ~Has(organizerId) THEN Answer(createUnauthorizedResponse, st)
      ELSE LET r == delete(st, id, Val(organizerId), t)
           IN  IF r.code = OK
               THEN Answer(createSuccessResponse(None, 204), r.store)
               ELSE Answer(withErrorHandling("delete", r.code), st)

\* The message of the FORBIDDEN error of verifyEventAccess for a write,
\* lines 502-517.
AccessMessage(st, id, userId, operation) ==
  IF findById(st, id).organizerId # userId
  THEN "You do not have permission to " \o operation \o " this event"
  ELSE "Your role does not allow you to " \o operation \o " events"

\* PUT of the handler version that checks verifyEventAccess first,
\* part_005 lines 83-130.
PUT_part005(st, req, id, data, t) ==
  LET user == authenticateRequest(req)
  IN  IF ~Has(user) THEN Answer(createUnauthorizedResponse, st)
      ELSE LET code == verifyEventAccess(st, id, Val(user).userId,
                                         Val(user).role, "update")
           IN  IF code = NOT_FOUND
               THEN Answer(createNotFoundResponse("Event"), st)
               ELSE IF code = FORBIDDEN
               THEN Answer(createForbiddenResponse(
                      AccessMessage(st, id, Val(user).userId, "update")), st)
               ELSE LET r == update(st, id, data, Val(user).userId, t)
                    IN  IF r.code = OK
                        THEN Answer(createSuccessResponse(Some(r.store[id]), 200),
                                    r.store)
                        ELSE Answer(withErrorHandling("update", r.code), st)

\* DELETE of the same handler version, part_005 lines 135-179.
DELETE_part005(st, req, id, t) ==
  LET user == authenticateRequest(req)
  IN  IF ~Has(user) THEN Answer(createUnauthorizedResponse, st)
      ELSE LET code == verifyEventAccess(st, id, Val(user).userId,
                                         Val(user).role, "delete")
           IN  IF code = NOT_FOUND
               THEN Answer(createNotFoundResponse("Event"), st)
               ELSE IF code = FORBIDDEN
               THEN Answer(createForbiddenResponse(
                      AccessMessage(st, id, Val(user).userId, "delete")), st)
               ELSE LET r == delete(st, id, Val(user).userId, t)
                    IN  IF r.code = OK
                        THEN Answer(createSuccessResponse(None, 204), r.store)
                        ELSE Answer(withErrorHandling("delete", r.code), st)

\* One request handled from start to end; q records the request, the row it
\* addressed as it was before, and the response.
Handled(handler, req, id, ans) ==
  /\ now < MaxRequests
  /\ now' = now + 1
  /\ store' = ans.store
  /\ q' = [kind |-> "route", handler |-> handler, req |-> req, id |-> id,
           pre |-> IF Exists(store, id) THEN Some(store[id]) ELSE None,
           resp |-> ans.resp]
  /\ UNCHANGED <<calls, last>>

HandleGET ==
  \E req \in Requests, id \in EventIds :
    Handled("GET", req, id, GET(store, req, id))

HandlePOST ==
  \E req \in Requests, data \in CreatePayloads :
    /\ NextId(store) \in EventIds
    /\ Handled("POST", req, NextId(store), POST(store, req, data, now + 1))

HandlePUT ==
  \E req \in Requests, id \in EventIds, data \in UpdatePayloads :
    Handled("PUT", req, id, PUT(store, req, id, data, now + 1))

HandleDELETE ==
  \E req \in Requests, id \in EventIds :
    Handled("DELETE", req, id, DELETE(store, req, id, now + 1))

HandlePUT_part005 ==
  \E req \in Requests, id \in EventIds, data \in UpdatePayloads :
    Handled("PUT_part005", req, id, PUT_part005(store, req, id, data, now + 1))

HandleDELETE_part005 ==
  \E req \in Requests, id \in EventIds :
    Handled("DELETE_part005", req, id, DELETE_part005(store, req, id, now + 1))

InitRoute ==
  /\ store = <<>>
  /\ now = 0
  /\ calls = [p \in Procs |-> Idle]
  /\ last = [okUpdates |-> [id \in EventIds |-> 0], res |-> NoResult]
  /\ q = NoQuery

NextRoute ==
  \/ HandleGET
  \/ HandlePOST
  \/ HandlePUT
  \/ HandleDELETE
  \/ HandlePUT_part005
  \/ HandleDELETE_part005

SpecRoute == InitRoute /\ [][NextRoute]_vars

(***************************************************************************)
(* Claims checked under SpecRoute.                                         *)
(***************************************************************************)
\* The last request was handled by one of these handlers, on an existing row.
HandledBy(handlers) ==
  q.kind = "route" /\ q.handler \in handlers /\ Has(q.pre)

TokenRole(req) == IF Has(req.token) THEN Val(req.token).role ELSE "none"

\* C3: an admin who is not the event's organizer can update and delete any
\* existing event: after the handler's access check grants such an admin, a
\* PUT (not refused for a title conflict) leaves the row's version one higher
\* and a DELETE leaves the row archived.
C3_AdminMutationApplied ==
  (/\ HandledBy({"PUT_part005", "DELETE_part005"})
   /\ TokenRole(q.req) = "admin"
   /\ Val(q.pre).organizerId # Val(q.req.token).userId
   /\ q.resp.code # CONFLICT)
  => /\ q.handler = "PUT_part005" =>
          store[q.id].version = Val(q.pre).version + 1
     /\ q.handler = "DELETE_part005" => store[q.id].status = "archived"

\* C4: no PUT or DELETE of the /api/events/[id] route made with a token of
\* role user changes the event, not even the caller's own event.
C4_UserRoleNeverMutates ==
  (HandledBy({"PUT", "DELETE"}) /\ TokenRole(q.req) = "user")
  => store[q.id] = Val(q.pre)

\* The read of event id is refused to the sender of req.
ReadDenied(st, req, id) ==
  LET user == optionalAuth(req)
  IN  verifyEventAccess(st, id,
        IF Has(user) THEN Val(user).userId ELSE "",
        IF Has(user) THEN Val(user).role ELSE "user", "read") = FORBIDDEN

Without(st, ids) == [i \in DOMAIN st \ ids |-> st[i]]

\* C5: a GET of an existing event the caller may not read is answered exactly
\* as a GET of an id that does not exist (404, NOT_FOUND, same body): the
\* store without any set of events the caller cannot read gives the same
\* response to every GET of that caller.
C5_DeniedReadLooksMissing ==
  /\ \A req \in Requests :
       \A hidden \in SUBSET {i \in DOMAIN store : ReadDenied(store, req, i)} :
         \A id \in EventIds :
           GET(store, req, id).resp = GET(Without(store, hidden), req, id).resp
  /\ (HandledBy({"GET"}) /\ ReadDenied(store, q.req, q.id)) =>
       /\ q.resp = GET(<<>>, q.req, q.id).resp
       /\ q.resp.status = 404
       /\ q.resp.code = NOT_FOUND

\* A GET of an existing event was refused.
C5_Witness ==
  /\ HandledBy({"GET"})
  /\ ReadDenied(store, q.req, q.id)
  /\ q.resp.status = 404

(***************************************************************************)
(* Claims checked under Spec.                                              *)
(***************************************************************************)
\* Update calls that have run their UPDATE statement on row id but not yet
\* returned.
InFlightWritten(id) ==
  {p \in Procs : calls[p].pc = "upd_reread" /\ calls[p].id = id}

\* C1: in any interleaving of concurrent update calls on an event, the stored
\* version equals the initial version (1) plus the number of update calls that
\* succeeded (counting those that have written and are about to return), so at
\* the end it is the initial version plus N; and no step decreases a version.
C1_VersionCountsUpdates ==
  /\ [](\A id \in DOMAIN store :
          store[id].version =
            1 + last.okUpdates[id] + Cardinality(InFlightWritten(id)))
  /\ [][\A id \in DOMAIN store : store'[id].version >= store[id].version]_vars

\* Two update calls on one event that both read version 1 have both written.
C1_Witness ==
  \E id \in DOMAIN store :
    /\ InFlightWritten(id) = Procs
    /\ \A p \in Procs : calls[p].existing.version = 1
    /\ store[id].version = 3


(***************************************************************************)
(* Listing: EventService.findMany and buildFilterConditions.               *)
(***************************************************************************)

\* EventQueryParams (event.types.ts): every field is optional.
NoParams ==
  [page |-> None, limit |-> None, status |-> None, category |-> None,
   fromDate |-> None, toDate |-> None, search |-> None, visibility |-> None,
   organizerId |-> None, minCapacity |-> None, maxCapacity |-> None,
   priceType |-> None, minPrice |-> None, maxPrice |-> None,
   hasNFT |-> None, sortBy |-> None, sortOrder |-> None]

\* JavaScript truthiness of an optional string: present and not ''.
Truthy(o) == Has(o) /\ Val(o) # ""

\* JSON_LENGTH of a metadata value that is not SQL NULL.
JSON_LENGTH(m) == IF m = "empty" THEN 0 ELSE 1

\* MySQL LIKE under the default case-insensitive collation: in the pattern
\* % matches any run of characters and _ matches any one character.
RECURSIVE LikeMatch(_, _)
LikeMatch(s, pat) ==
  IF pat = <<>> THEN s = <<>>
  ELSE IF Head(pat) = "%"
       THEN \/ LikeMatch(s, Tail(pat))
            \/ (s # <<>> /\ LikeMatch(Tail(s), pat))
       ELSE /\ s # <<>>
            /\ (Head(pat) = "_" \/ Lower(Head(s)) = Lower(Head(pat)))
            /\ LikeMatch(Tail(s), Tail(pat))

\* like(column, `%${term}%`); a NULL column matches nothing.
like(column, term) ==
  Has(column) /\ LikeMatch(Val(column), <<"%">> \o term \o <<"%">>)

\* sanitizedSearch.split(/\s+/).filter(term => term.length > 0)
RECURSIVE SplitTerms(_)
SplitTerms(s) ==
  IF s = <<>> THEN <<>>
  ELSE IF IsSpace(Head(s)) THEN SplitTerms(Tail(s))
  ELSE LET stops == {i \in 1..Len(s) : IsSpace(s[i])}
           n == IF stops = {} THEN Len(s) + 1
                ELSE CHOOSE i \in stops : \A j \in stops : i <= j
       IN  <<SubSeq(s, 1, n - 1)>> \o SplitTerms(SubSeq(s, n, Len(s)))

\* or(like(title), like(description), like(excerpt)) for one term.
TermCondition(e, term) ==
  \/ like(Some(e.title), term)
  \/ like(Some(e.description), term)
  \/ like(e.excerpt, term)

\* One entry of the conditions array, as the SQL text it renders to, read
\* against the row e: the sequence of its top-level OR-separated operands.
\* eq/gte/lte/like, or(...) and and(...) render one self-contained operand
\* (or and and parenthesise their output); a raw sql`...` fragment is spliced
\* in as written, so `a IS NULL OR b = 0` contributes two operands.
Cond(present, operands) == IF present THEN <<operands>> ELSE <<>>

\* buildFilterConditions, lines 613-738, with each condition evaluated on e.
buildFilterConditions(params, e) ==
     Cond(Truthy(params.status), <<e.status = Val(params.status)>>)
  \o Cond(Truthy(params.organizerId),
          <<e.organizerId = Val(params.organizerId)>>)
  \o Cond(Truthy(params.category),
          <<Has(e.categoryId) /\ Val(e.categoryId) = Val(params.category)>>)
  \o Cond(Truthy(params.visibility),
          <<e.visibility = Val(params.visibility)>>)
  \o Cond(Has(params.fromDate), <<e.startDateTime >= Val(params.fromDate)>>)
  \o Cond(Has(params.toDate), <<e.endDateTime <= Val(params.toDate)>>)
  \o Cond(Has(params.minCapacity),
          <<Has(e.capacity) /\ Val(e.capacity) >= Val(params.minCapacity)>>)
  \o Cond(Has(params.maxCapacity),
          <<Has(e.capacity) /\ Val(e.capacity) <= Val(params.maxCapacity)>>)
  \o Cond(Has(params.priceType),
          IF Val(params.priceType) = "free"
          THEN <<(Has(e.price) /\ Val(e.price).type = "free") \/ ~Has(e.price)>>
          ELSE <<Has(e.price) /\ Val(e.price).type = "paid">>)
  \o Cond(Has(params.minPrice),
          <<Has(e.price) /\ Val(e.price).amount >= Val(params.minPrice)>>)
  \o Cond(Has(params.maxPrice),
          <<Has(e.price) /\ Val(e.price).amount <= Val(params.maxPrice)>>)
  \o Cond(Has(params.hasNFT),
          IF Val(params.hasNFT)
          THEN <<e.metadata # NULL /\ JSON_LENGTH(e.metadata) > 0>>
          ELSE <<e.metadata = NULL,
                 e.metadata # NULL /\ JSON_LENGTH(e.metadata) = 0>>)
  \o Cond(Has(params.search) /\ Trim(Val(params.search)) # <<>>,
          LET searchTerms == SplitTerms(Trim(Val(params.search)))
          IN  <<\A i \in 1..Len(searchTerms) :
                  TermCondition(e, searchTerms[i])>>)

\* and(...conditions) as MySQL reads it: the conditions joined by AND inside
\* one pair of parentheses, AND binding tighter than the OR of a raw fragment.
\* cur is the value of the AND-group being read.
RECURSIVE AndJoined(_, _)
AndJoined(conditions, cur) ==
  IF conditions = <<>> THEN cur
  ELSE LET c == Head(conditions)
       IN  IF Len(c) = 1 THEN AndJoined(Tail(conditions), cur /\ c[1])
           ELSE \/ (cur /\ c[1])
                \/ \E j \in 2..(Len(c) - 1) : c[j]
                \/ AndJoined(Tail(conditions), c[Len(c)])

\* The WHERE clause of findMany (lines 145-148) on the row e; no condition,
\* no WHERE.
whereClause(params, e) == AndJoined(buildFilterConditions(params, e), TRUE)


\* Defaults and cap of the pagination parameters (findMany, lines 120-141).
DefaultPage == 1
DefaultLimit == 20
MaxLimit == 100

Max(a, b) == IF a >= b THEN a ELSE b
Min(a, b) == IF a <= b THEN a ELSE b

\* Rounding the quotient down instead of up.
Floor(a, b) == a \div b

\* Math.ceil(a / b) for a >= 0, b >= 1.
Ceil(a, b) == (a + b - 1) \div b

\* Order of characters under the collation (case-insensitive).
Alphabet == <<" ", "!", "%", "-", "_", "a", "b", "c", "d">>
CharRank(c) == CHOOSE i \in 1..Len(Alphabet) : Alphabet[i] = Lower(c)

RECURSIVE StringLess(_, _)
StringLess(s, t) ==
  IF t = <<>> THEN FALSE
  ELSE IF s = <<>> THEN TRUE
  ELSE IF CharRank(Head(s)) # CharRank(Head(t))
       THEN CharRank(Head(s)) < CharRank(Head(t))
       ELSE StringLess(Tail(s), Tail(t))

\* a sorts strictly before b under ORDER BY <sortBy column> ASC (lines
\* 154-168); NULL capacities sort first.
AscBefore(sortBy, a, b) ==
  IF sortBy = "createdAt" THEN a.createdAt < b.createdAt
  ELSE IF sortBy = "title" THEN StringLess(a.title, b.title)
  ELSE IF sortBy = "capacity"
       THEN IF ~Has(b.capacity) THEN FALSE
            ELSE ~Has(a.capacity) \/ Val(a.capacity) < Val(b.capacity)
  ELSE a.startDateTime < b.startDateTime

orderBy(params, a, b) ==
  LET sortBy == IF Has(params.sortBy) THEN Val(params.sortBy) ELSE "startDate"
      sortOrder == IF Has(params.sortOrder) THEN Val(params.sortOrder) ELSE "asc"
  IN  IF sortOrder = "desc" THEN AscBefore(sortBy, b, a)
      ELSE AscBefore(sortBy, a, b)

\* The rows the WHERE clause selects, and the orders in which the database may
\* hand them out: any arrangement that agrees with ORDER BY (the order of rows
\* with equal sort keys is not determined).
Matching(st, params) == {id \in DOMAIN st : whereClause(params, st[id])}

RECURSIVE Arrangements(_, _, _)
Arrangements(st, params, ids) ==
  IF ids = {} THEN {<<>>}
  ELSE LET firsts == {m \in ids :
                        \A x \in ids : ~orderBy(params, st[x], st[m])}
       IN  UNION {{<<m>> \o rest :
                     rest \in Arrangements(st, params, ids \ {m})} :
                  m \in firsts}

Orders(st, params) == Arrangements(st, params, Matching(st, params))

\* findMany, lines 119-142: the sanitized page and limit, and the offset.
sanitizedPage(params) ==
  Max(1, IF Has(params.page) THEN Val(params.page) ELSE DefaultPage)

sanitizedLimit(params) ==
  Min(Max(1, IF Has(params.limit) THEN Val(params.limit) ELSE DefaultLimit),
      MaxLimit)

\* findMany, lines 172-178: the data query, the database handing the matching
\* rows out as ord.
selectRows(st, params, ord) ==
  LET offset == (sanitizedPage(params) - 1) * sanitizedLimit(params)
      window == SubSeq(ord, offset + 1,
                       Min(offset + sanitizedLimit(params), Len(ord)))
  IN  [i \in 1..Len(window) |-> st[window[i]]]

\* findMany, lines 179-183: the count query.
countRows(st, params) == Cardinality(Matching(st, params))

\* findMany, lines 185-208: the response built from the two query results.
paginated(params, data, total) ==
  LET totalPages == Ceil(total, sanitizedLimit(params))
  IN  [data |-> data,
       pagination |-> [page |-> sanitizedPage(params),
                       limit |-> sanitizedLimit(params),
                       total |-> total,
                       totalPages |-> totalPages,
                       hasNext |-> sanitizedPage(params) < totalPages,
                       hasPrev |-> sanitizedPage(params) > 1]]

\* findMany, lines 117-218, with both queries reading the same store.
findMany(st, params, ord) ==
  paginated(params, selectRows(st, params, ord), countRows(st, params))

\* findByOrganizer, lines 247-269.
findByOrganizer(st, organizerId, params, ord) ==
  findMany(st, [params EXCEPT !.organizerId = Some(organizerId)], ord)

\* The constraints findManyWithAuthorization puts on the parameters (lines
\* 553-578).  userId and userRole are optional.
constrainedParams(params, userId, userRole) ==
  IF ~Truthy(userId) \/ ~Truthy(userRole)
  THEN [params EXCEPT !.status = Some("published"),
                      !.visibility = Some("public")]
  ELSE IF Val(userRole) = "user"
  THEN [params EXCEPT !.status = Some("published"),
                      !.visibility = Some("public")]
  ELSE IF Val(userRole) = "organizer"
  THEN [params EXCEPT !.organizerId = userId]
  ELSE params

\* findManyWithAuthorization, lines 547-592.
findManyWithAuthorization(st, params, userId, userRole, ord) ==
  findMany(st, constrainedParams(params, userId, userRole), ord)


(***************************************************************************)
(* One listing call per behaviour: the store and the call's arguments are  *)
(* drawn by the initial state, the action runs the call.                   *)
(***************************************************************************)

Listing(kind, params, userId, userRole) ==
  [kind |-> kind, params |-> params, userId |-> userId,
   userRole |-> userRole, result |-> None]

InitListing(stores, listings) ==
  /\ store \in stores
  /\ now = 0
  /\ calls = [p \in Procs |-> Idle]
  /\ last = [okUpdates |-> [id \in EventIds |-> 0], res |-> NoResult]
  /\ q \in listings

\* One call findMany(params).
FindMany ==
  /\ q.kind = "findMany"
  /\ ~Has(q.result)
  /\ \E ord \in Orders(store, q.params) :
       q' = [q EXCEPT !.result = Some(findMany(store, q.params, ord))]
  /\ UNCHANGED <<store, now, calls, last>>

\* One call findManyWithAuthorization(params, userId, userRole).
FindManyWithAuthorization ==
  /\ q.kind = "findManyWithAuthorization"
  /\ ~Has(q.result)
  /\ \E ord \in Orders(store, constrainedParams(q.params, q.userId, q.userRole)) :
       q' = [q EXCEPT !.result =
               Some(findManyWithAuthorization(store, q.params, q.userId,
                                              q.userRole, ord))]
  /\ UNCHANGED <<store, now, calls, last>>

\* One call findByOrganizer(userId, params).
FindByOrganizer ==
  /\ q.kind = "findByOrganizer"
  /\ ~Has(q.result)
  /\ \E ord \in Orders(store, [q.params EXCEPT !.organizerId = q.userId]) :
       q' = [q EXCEPT !.result =
               Some(findByOrganizer(store, Val(q.userId), q.params, ord))]
  /\ UNCHANGED <<store, now, calls, last>>

\* The create payloads of the rows of the listing stores; titles differ from
\* row to row, as slugs are unique.
BaseData == CHOOSE d \in CreatePayloads : d.title = <<"a", "-", "b">>
OtherData == CHOOSE d \in CreatePayloads : d.title = <<"c", "!">>
NumberedData(id) == [BaseData EXCEPT !.title = [k \in 1..id |-> "a"]]

(***************************************************************************)
(* Pagination.                                                             *)
(***************************************************************************)

MaxRows == 4

\* Stores of n rows with distinct start times, ascending or descending in
\* the id, each row draft or published.
PageStores ==
  UNION {{[id \in 1..n |->
             [NewEvent(id, NumberedData(id), "alice", 0) EXCEPT
                !.startDateTime = IF up THEN id ELSE n + 1 - id,
                !.endDateTime = n + 1,
                !.status = ss[id]]] :
            up \in BOOLEAN, ss \in [1..n -> {"draft", "published"}]} :
         n \in 0..MaxRows}

PageParams ==
  {[NoParams EXCEPT !.page = pg, !.limit = lm, !.status = s, !.sortOrder = so] :
     pg \in {None} \cup {Some(i) : i \in -1..3},
     lm \in {None} \cup {Some(i) : i \in {-1, 0, 1, 2, 3, MaxLimit, MaxLimit + 1}},
     s \in {None, Some("published")},
     so \in {None, Some("desc")}}

InitPage ==
  InitListing(PageStores, {Listing("findMany", ps, None, None) : ps \in PageParams})

NextPage == FindMany

SpecPage == InitPage /\ [][NextPage]_vars


\* The rows of the store a listing with only a status filter selects, and the
\* position of one of them in the requested order of start times.
Selected == {id \in DOMAIN store :
               Has(q.params.status) => store[id].status = Val(q.params.status)}

Position(id) ==
  1 + Cardinality({x \in Selected :
        IF q.params.sortOrder = Some("desc")
        THEN store[x].startDateTime > store[id].startDateTime
        ELSE store[x].startDateTime < store[id].startDateTime})

\* C10: for every findMany call the effective page is max(1, page), 1 by
\* default; the effective limit is the requested limit clamped into 1..100,
\* 20 by default; the data holds the rows at positions offset+1.. of the
\* ordered selection, offset = (page-1)*limit, at most limit of them;
\* totalPages is the ceiling of total/limit; hasPrev iff page > 1; hasNext iff
\* page*limit < total.
C10_Pagination ==
  (q.kind = "findMany" /\ Has(q.result)) =>
    LET r == Val(q.result)
        pg == r.pagination
        reqPage == q.params.page
        reqLimit == q.params.limit
        offset == (pg.page - 1) * pg.limit
    IN  /\ pg.page = (IF ~Has(reqPage) THEN 1
                      ELSE IF Val(reqPage) < 1 THEN 1 ELSE Val(reqPage))
        /\ pg.limit = (IF ~Has(reqLimit) THEN 20
                       ELSE IF Val(reqLimit) < 1 THEN 1
                       ELSE IF Val(reqLimit) > 100 THEN 100
                       ELSE Val(reqLimit))
        /\ pg.total = Cardinality(Selected)
        /\ Len(r.data) <= pg.limit
        /\ Len(r.data) = Cardinality({id \in Selected :
                            /\ Position(id) > offset
                            /\ Position(id) <= offset + pg.limit})
        /\ \A k \in 1..Len(r.data) :
             /\ r.data[k].id \in Selected
             /\ Position(r.data[k].id) = offset + k
             /\ r.data[k] = store[r.data[k].id]
        /\ pg.totalPages * pg.limit >= pg.total
        /\ pg.totalPages >= 0
        /\ (pg.totalPages > 0 => (pg.totalPages - 1) * pg.limit < pg.total)
        /\ pg.hasPrev <=> (pg.page > 1)
        /\ pg.hasNext <=> (pg.page * pg.limit < pg.total)

\* A middle page: page 2 of three published rows at one row per page, with a
\* page before it and a page after it.
C10_Witness ==
  /\ q.kind = "findMany"
  /\ Has(q.result)
  /\ q.params.page = Some(2)
  /\ q.params.limit = Some(1)
  /\ Val(q.result).pagination.total = 3
  /\ Val(q.result).pagination.totalPages = 3
  /\ Val(q.result).pagination.hasNext
  /\ Val(q.result).pagination.hasPrev
  /\ Len(Val(q.result).data) = 1


(***************************************************************************)
(* Role-scoped listings.                                                   *)
(***************************************************************************)

\* Stores of two events, event 1 of alice and event 2 of bob, of every
\* status, visibility and metadata.
ListRow(id, data, organizerId, status, visibility, metadata) ==
  [NewEvent(id, data, organizerId, 0) EXCEPT
     !.status = status, !.visibility = visibility, !.metadata = metadata]

ListStores ==
  {(1 :> ListRow(1, BaseData, "alice", s1, v1, m1))
     @@ (2 :> ListRow(2, OtherData, "bob", s2, v2, m2)) :
     s1 \in {"draft", "published"}, v1 \in {"public", "private"}, m1 \in Metadatas,
     s2 \in {"draft", "published"}, v2 \in {"public", "private"}, m2 \in Metadatas}

ListParams ==
  {[NoParams EXCEPT !.status = s, !.visibility = v, !.organizerId = o,
                    !.hasNFT = h, !.search = t] :
     s \in {None, Some("draft")},
     v \in {None, Some("private")},
     o \in {None} \cup {Some(u) : u \in Users},
     h \in {None, Some(TRUE), Some(FALSE)},
     t \in {None, Some(<<"a">>), Some(<<"c">>)}}

InitList ==
  InitListing(ListStores,
    {Listing("findManyWithAuthorization", ps, u, r) :
       ps \in ListParams,
       u \in {None} \cup {Some(x) : x \in Users},
       r \in {None} \cup {Some(x) : x \in Roles}}
    \cup
    {Listing("findByOrganizer", ps, Some(u), None) :
       ps \in ListParams, u \in Users})

NextList ==
  \/ FindManyWithAuthorization
  \/ FindByOrganizer

SpecList == InitList /\ [][NextList]_vars

\* C6: for an anonymous caller or a caller with role user, every event
\* returned by findManyWithAuthorization is published and public, whatever
\* filters were requested.
C6_PublicListingOnly ==
  (/\ q.kind = "findManyWithAuthorization"
   /\ Has(q.result)
   /\ (~Has(q.userId) \/ ~Has(q.userRole) \/ q.userRole = Some("user"))) =>
    \A k \in 1..Len(Val(q.result).data) :
      /\ Val(q.result).data[k].status = "published"
      /\ Val(q.result).data[k].visibility = "public"

\* C7: a listing obtained by an organizer A (findManyWithAuthorization with
\* role organizer, or findByOrganizer scoped to A) contains no event of
\* another organizer, whatever other filters A supplies, and verifyOwnership
\* of another organizer's event for A is false.
C7_OrganizerIsolation ==
  (/\ Has(q.result)
   /\ \/ q.kind = "findByOrganizer"
      \/ (q.kind = "findManyWithAuthorization" /\ Has(q.userId)
            /\ q.userRole = Some("organizer"))) =>
    /\ \A k \in 1..Len(Val(q.result).data) :
         Val(q.result).data[k].organizerId = Val(q.userId)
    /\ \A id \in DOMAIN store :
         store[id].organizerId # Val(q.userId) =>
           ~verifyOwnership(store, id, Val(q.userId))


(***************************************************************************)
(* Filter composition.                                                     *)
(***************************************************************************)

MaxFilters == 2

FreePrice == [amount |-> 0, type |-> "free"]
PaidPrice == [amount |-> 5, type |-> "paid"]

\* The row every filter value below is chosen around.
BaseRow ==
  [NewEvent(1, BaseData, "alice", 0) EXCEPT
     !.status = "published", !.categoryId = Some("c1"), !.capacity = Some(2)]

\* Rows that differ from BaseRow in at most two of status, visibility,
\* organizer, category, dates, capacity, price, metadata and text.
QueryRows ==
  {r \in {[NewEvent(1, d, o, 0) EXCEPT
             !.status = s, !.visibility = v, !.categoryId = c,
             !.startDateTime = t, !.endDateTime = t + 1,
             !.capacity = cap, !.price = pr, !.metadata = m] :
            d \in {BaseData, OtherData}, o \in Users,
            s \in {"published", "draft"}, v \in {"public", "private"},
            c \in {Some("c1"), None}, t \in {1, 3},
            cap \in {Some(2), None},
            pr \in {None, Some(FreePrice), Some(PaidPrice)},
            m \in Metadatas} :
     Cardinality({f \in {"title", "organizerId", "status", "visibility",
                         "categoryId", "startDateTime", "capacity", "price",
                         "metadata"} : r[f] # BaseRow[f]}) <= 2}

\* The single filters a call can supply: a parameter and its value.
FilterSettings ==
       {<<"status", x>> : x \in {"published", "draft"}}
  \cup {<<"visibility", x>> : x \in {"public", "private"}}
  \cup {<<"category", x>> : x \in {"c1", "c2"}}
  \cup {<<"organizerId", x>> : x \in Users}
  \cup {<<"fromDate", x>> : x \in {1, 3}}
  \cup {<<"toDate", x>> : x \in {2, 4}}
  \cup {<<"minCapacity", x>> : x \in {1, 3}}
  \cup {<<"maxCapacity", x>> : x \in {1, 3}}
  \cup {<<"priceType", x>> : x \in {"free", "paid"}}
  \cup {<<"minPrice", x>> : x \in {0, 1}}
  \cup {<<"maxPrice", x>> : x \in {0, 5}}
  \cup {<<"hasNFT", x>> : x \in BOOLEAN}
  \cup {<<"search", x>> : x \in {<<"a">>, <<"c">>}}

\* Parameters with one to MaxFilters filters supplied.
RECURSIVE WithSettings(_, _)
WithSettings(params, settings) ==
  IF settings = <<>> THEN params
  ELSE WithSettings([params EXCEPT ![Head(settings)[1]] = Some(Head(settings)[2])],
                    Tail(settings))

QueryParams ==
  {WithSettings(NoParams, ss) : ss \in [1..MaxFilters -> FilterSettings]}

InitQuery ==
  InitListing({(1 :> r) : r \in QueryRows},
              {Listing("findMany", ps, None, None) : ps \in QueryParams})

NextQuery == FindMany

SpecQuery == InitQuery /\ [][NextQuery]_vars

\* term occurs in text, letter case aside.
Occurs(term, text) ==
  \E i \in 1..(Len(text) - Len(term) + 1) :
    \A k \in 1..Len(term) : Lower(text[i + k - 1]) = Lower(term[k])

\* The whitespace-separated terms of a search string.
Words(s) ==
  {SubSeq(s, i, j) : <<i, j>> \in
     {<<i, j>> \in (1..Len(s)) \X (1..Len(s)) :
        /\ i <= j
        /\ \A k \in i..j : ~IsSpace(s[k])
        /\ (i = 1 \/ IsSpace(s[i - 1]))
        /\ (j = Len(s) \/ IsSpace(s[j + 1]))}}

\* The event has every term of the search string in its title, description
\* or excerpt.
Found(e, s) ==
  \A term \in Words(s) :
    \/ Occurs(term, e.title)
    \/ Occurs(term, e.description)
    \/ (Has(e.excerpt) /\ Occurs(term, Val(e.excerpt)))

\* The event satisfies the filter param = value taken on its own.
Satisfies(e, param, value) ==
  CASE param = "status" -> e.status = value
    [] param = "visibility" -> e.visibility = value
    [] param = "category" -> e.categoryId = Some(value)
    [] param = "organizerId" -> e.organizerId = value
    [] param = "fromDate" -> e.startDateTime >= value
    [] param = "toDate" -> e.endDateTime <= value
    [] param = "minCapacity" -> Has(e.capacity) /\ Val(e.capacity) >= value
    [] param = "maxCapacity" -> Has(e.capacity) /\ Val(e.capacity) <= value
    [] param = "priceType" ->
         IF value = "free" THEN ~Has(e.price) \/ Val(e.price).type = "free"
         ELSE Has(e.price) /\ Val(e.price).type = "paid"
    [] param = "minPrice" -> Has(e.price) /\ Val(e.price).amount >= value
    [] param = "maxPrice" -> Has(e.price) /\ Val(e.price).amount <= value
    [] param = "hasNFT" -> value <=> e.metadata = "nft"
    [] param = "search" -> Found(e, value)

Supplied(params) ==
  {f \in {"status", "visibility", "category", "organizerId", "fromDate",
          "toDate", "minCapacity", "maxCapacity", "priceType", "minPrice",
          "maxPrice", "hasNFT", "search"} : Has(params[f])}

\* C8: when two or more filters are supplied together, every event findMany
\* returns satisfies each supplied filter on its own.
C8_FiltersConjoined ==
  (/\ q.kind = "findMany"
   /\ Has(q.result)
   /\ Cardinality(Supplied(q.params)) >= 2) =>
    \A k \in 1..Len(Val(q.result).data) :
      \A f \in Supplied(q.params) :
        Satisfies(Val(q.result).data[k], f, Val(q.params[f]))


(***************************************************************************)
(* Free-text search.                                                       *)
(***************************************************************************)

\* One-row stores over a few titles, descriptions and excerpts.
SearchRows ==
  {[NewEvent(1, [BaseData EXCEPT !.title = t, !.description = d, !.excerpt = x],
             "alice", 0) EXCEPT !.status = "published"] :
     t \in {<<"a", "b">>, <<"A", " ", "b">>, <<"c", "!">>},
     d \in {<<"d">>, <<"c", "d">>},
     x \in {None, Some(<<"b", "c">>)}}

\* Search strings: whitespace only, one term, several terms, terms holding
\* the characters _ and %.
SearchStrings ==
  { <<" ">>, <<" ", " ">>,
    <<"a">>, <<"B">>, <<"a", "b">>, <<"b", "d">>, <<" ", "d", " ">>,
    <<"a", " ", "d">>, <<"b", " ", " ", "c">>, <<"c", " ", "a", " ", "b">>,
    <<"a", "_">>, <<"%">>, <<"a", " ", "_", "d">> }

InitSearch ==
  InitListing({(1 :> r) : r \in SearchRows},
              {Listing("findMany", [NoParams EXCEPT !.search = Some(s)], None, None) :
                 s \in SearchStrings})

NextSearch == FindMany

SpecSearch == InitSearch /\ [][NextSearch]_vars

\* C9: with a search string as the only filter, an event is returned iff each
\* whitespace-separated term of the string occurs, letter case aside, in its
\* title, description or excerpt; a string of only whitespace filters nothing.
C9_SearchTerms ==
  (/\ q.kind = "findMany"
   /\ Has(q.result)
   /\ Has(q.params.search)) =>
    LET returned == {Val(q.result).data[k].id : k \in 1..Len(Val(q.result).data)}
    IN  \A id \in DOMAIN store :
          id \in returned <=> Found(store[id], Val(q.params.search))


(***************************************************************************)
(* findMany among other requests.  Its data query and its count query are  *)
(* two statements started together by Promise.all (lines 171-183), outside *)
(* any transaction: each reads the store as it is when it runs, in either  *)
(* order, and the statements of other calls may run between them.          *)
(***************************************************************************)

RaceParams ==
  {NoParams,
   [NoParams EXCEPT !.status = Some("published")],
   [NoParams EXCEPT !.limit = Some(1), !.page = Some(2)]}

\* The one call writing while the listing runs.
Writers == {"p1"}

InitRace ==
  /\ store = <<>>
  /\ now = 0
  /\ calls = [p \in Procs |-> Idle]
  /\ last = [okUpdates |-> [id \in EventIds |-> 0], res |-> NoResult]
  /\ q \in {[kind |-> "findManyQueries", params |-> ps, data |-> None,
             total |-> None, result |-> None] : ps \in RaceParams}

\* The data query, lines 172-178.
SelectRows ==
  /\ q.kind = "findManyQueries"
  /\ ~Has(q.data)
  /\ \E ord \in Orders(store, q.params) :
       q' = [q EXCEPT !.data = Some(selectRows(store, q.params, ord))]
  /\ UNCHANGED <<store, now, calls, last>>

\* The count query, lines 179-183.
CountRows ==
  /\ q.kind = "findManyQueries"
  /\ ~Has(q.total)
  /\ q' = [q EXCEPT !.total = Some(countRows(store, q.params))]
  /\ UNCHANGED <<store, now, calls, last>>

\* Both queries have answered: lines 185-208.
ReturnPage ==
  /\ q.kind = "findManyQueries"
  /\ Has(q.data) /\ Has(q.total) /\ ~Has(q.result)
  /\ q' = [q EXCEPT !.result = Some(paginated(q.params, Val(q.data), Val(q.total)))]
  /\ UNCHANGED <<store, now, calls, last>>

NextRace ==
  \/ \E p \in Writers :
       \/ CreateBegin(p)
       \/ CreateInsert(p)
       \/ CreateReread(p)
       \/ UpdateBegin(p)
       \/ UpdateCheckSlug(p)
       \/ UpdateWrite(p)
       \/ UpdateReread(p)
       \/ DeleteBegin(p)
       \/ DeleteWrite(p)
  \/ SelectRows
  \/ CountRows
  \/ ReturnPage

SpecRace == InitRace /\ [][NextRace]_vars

\* C11: in every findMany result the number of rows returned equals
\* min(limit, max(0, total - offset)), also when create, update or delete
\* calls of other requests run between the steps of the query.
C11_CountMatchesPage ==
  (q.kind = "findManyQueries" /\ Has(q.result)) =>
    LET r == Val(q.result)
        offset == (r.pagination.page - 1) * r.pagination.limit
    IN  Len(r.data) =
          Min(r.pagination.limit, Max(0, r.pagination.total - offset))


(***************************************************************************)
(* Lifecycle of a row under interleaved service calls (Spec).              *)
(***************************************************************************)

\* C12: once an event has a publishedAt time, no later step stores a
\* different one: not an update that enters published again after leaving it,
\* not the second of two concurrent publishing updates.
C12_PublishedAtSetOnce ==
  [][\A id \in DOMAIN store :
       store[id].publishedAt # 0 =>
         store'[id].publishedAt = store[id].publishedAt]_vars


(***************************************************************************)
(* Validated requests: the date rule of the request schemas                *)
(* (validations/event.schemas) in front of POST and PUT.                   *)
(***************************************************************************)

Dates == 1..3

\* createEventSchema's refinement: the end is after the start.
createEventSchema(body) == body.endDateTime > body.startDateTime

\* updateEventSchema's refinement: checked only when both dates are given.
updateEventSchema(body) ==
  (Has(body.startDateTime) /\ Has(body.endDateTime)) =>
    Val(body.endDateTime) > Val(body.startDateTime)

\* The issue of the failed refinement as withErrorHandling lists it (lines
\* 28-32), in the response of createValidationErrorResponse.
createValidationErrorResponse ==
  createErrorResponse("Validation failed", "VALIDATION_ERROR", 400)
    @@ [details |-> <<[field |-> "endDateTime",
                       message |-> "End date must be after start date"]>>]

\* A handler that reads the body only after it has authenticated the sender.
validateRequestBodyAfterAuth(passes, st, ans) ==
  IF passes \/ ans.resp.status = 401
  THEN ans
  ELSE Answer(createValidationErrorResponse, st)

\* validateRequestBody throws the ZodError of a body that fails its schema,
\* and withErrorHandling answers it with status 400; else the handler goes on.
validateRequestBody(passes, st, ans) ==
  IF passes THEN ans ELSE Answer(createValidationErrorResponse, st)

\* Bodies of create and update requests over every pair of dates.
DatedCreateBodies ==
  {[d EXCEPT !.startDateTime = s, !.endDateTime = e] :
     d \in CreatePayloads, s \in Dates, e \in Dates}

DatedUpdateBodies ==
  {[NoFields EXCEPT !.startDateTime = s, !.endDateTime = e] :
     s \in {None} \cup {Some(x) : x \in Dates},
     e \in {None} \cup {Some(x) : x \in Dates}}

\* The requests of one organizer holding a valid token.
OwnerRequest ==
  [token |-> Some([userId |-> "alice", role |-> "organizer"]), legacy |-> None]

HandleDatedPOST ==
  \E body \in DatedCreateBodies :
    /\ NextId(store) \in EventIds
    /\ Handled("POST", OwnerRequest, NextId(store),
               validateRequestBody(createEventSchema(body), store,
                                   POST(store, OwnerRequest, body, now + 1)))

HandleDatedPUT ==
  \E id \in EventIds, body \in DatedUpdateBodies :
    Handled("PUT", OwnerRequest, id,
            validateRequestBody(updateEventSchema(body), store,
                                PUT(store, OwnerRequest, id, body, now + 1)))

NextDates ==
  \/ HandleDatedPOST
  \/ HandleDatedPUT

SpecDates == InitRoute /\ [][NextDates]_vars

\* C13: every stored event ends after it starts, after any sequence of
\* validated create and update requests, updates giving only one of the two
\* dates included.
C13_EndAfterStart ==
  \A id \in DOMAIN store : store[id].endDateTime > store[id].startDateTime


(***************************************************************************)
(* EventService calls one after the other: each step is one whole call of  *)
(* create, update or delete; q records the call and its outcome.           *)
(***************************************************************************)

MaxSteps == 3

\* Update requests: those of UpdatePayloads, and one for each further field.
ServiceUpdatePayloads ==
  UpdatePayloads
  \cup {[NoFields EXCEPT !.description = Some(<<"c", "d">>)],
        [NoFields EXCEPT !.capacity = Some(2)],
        [NoFields EXCEPT !.price = Some(PaidPrice)],
        [NoFields EXCEPT !.categoryId = Some("c1")],
        [NoFields EXCEPT !.startDateTime = Some(2)],
        [NoFields EXCEPT !.endDateTime = Some(3)],
        [NoFields EXCEPT !.version = Some(7)],
        [NoFields EXCEPT !.title = Some(<<"a", "-", "b">>),
                         !.status = Some("published")]}

\* The events deleted with success so far, as q records them.
Deleted(call) == IF call.kind = "service" THEN call.deleted ELSE {}

Called(op, id, data, organizerId, r) ==
  /\ now < MaxSteps
  /\ now' = now + 1
  /\ store' = r.store
  /\ q' = [kind |-> "service", op |-> op, id |-> id, data |-> data,
           organizerId |-> organizerId, code |-> r.code,
           deleted |-> IF op = "delete" /\ r.code = OK
                       THEN Deleted(q) \cup {id} ELSE Deleted(q)]
  /\ UNCHANGED <<calls, last>>

CallCreate ==
  \E data \in CreatePayloads, organizerId \in Users :
    /\ NextId(store) \in EventIds
    /\ Called("create", NextId(store), data, organizerId,
              create(store, data, organizerId, now + 1))

CallUpdate ==
  \E id \in EventIds, data \in ServiceUpdatePayloads, organizerId \in Users :
    Called("update", id, data, organizerId,
           update(store, id, data, organizerId, now + 1))

CallDelete ==
  \E id \in EventIds, organizerId \in Users :
    Called("delete", id, NoFields, organizerId,
           delete(store, id, organizerId, now + 1))

NextService ==
  \/ CallCreate
  \/ CallUpdate
  \/ CallDelete

SpecService == InitRoute /\ [][NextService]_vars


\* The slug is held by an event other than id.
HeldByOther(st, id, slug) == \E i \in DOMAIN st \ {id} : st[i].slug = slug

\* C14: a create, or an update that changes the title, whose derived slug is
\* held by a different event fails with CONFLICT and stores nothing; an update
\* whose new title derives the event's own slug does not conflict; an update
\* that leaves the title unchanged keeps the slug and does not conflict.
C14_SlugConflict ==
  [][(q'.kind = "service") =>
       LET c == q'
           owned == c.id \in DOMAIN store
                      /\ store[c.id].organizerId = c.organizerId
           renames == Has(c.data.title) /\ Val(c.data.title) # store[c.id].title
       IN  /\ (c.op = "create") =>
                IF HeldByOther(store, c.id, generateSlug(c.data.title))
                THEN c.code = CONFLICT /\ store' = store
                ELSE c.code = OK
           /\ (c.op = "update" /\ owned /\ renames) =>
                IF HeldByOther(store, c.id, generateSlug(Val(c.data.title)))
                THEN c.code = CONFLICT /\ store' = store
                ELSE c.code = OK
           /\ (c.op = "update" /\ owned /\ ~renames) =>
                c.code = OK /\ store'[c.id].slug = store[c.id].slug]_vars

\* An update that renames an event to a title whose slug another event holds
\* was refused with CONFLICT.
C14_Witness ==
  /\ q.kind = "service"
  /\ q.op = "update"
  /\ q.code = CONFLICT
  /\ Has(q.data.title)
  /\ q.id \in DOMAIN store
  /\ store[q.id].organizerId = q.organizerId
  /\ HeldByOther(store, q.id, generateSlug(Val(q.data.title)))


\* C15: under interleaved calls no two events ever share a slug, and a create
\* or renaming update whose INSERT or UPDATE loses the slug to a concurrent
\* call fails with CONFLICT.
C15_SlugUnique ==
  /\ [](\A i, j \in DOMAIN store : i # j => store[i].slug # store[j].slug)
  /\ [][\A p \in Procs :
          (calls[p].pc \in {"cre_insert", "upd_write"} /\ calls'[p].pc = "idle")
            => last'.res.code = CONFLICT]_vars


\* The column a field of an update request is written to.
Column(f) == IF f = "nftMetadata" THEN "metadata" ELSE f

\* The columns a successful update of the row old with the request data may
\* change: those of the fields present, updatedAt and version, the slug when
\* the title changes, publishedAt when the status moves into published.
MayChange(data, old) ==
  {Column(f) : f \in PresentFields(data) \ {"version"}}
    \cup {"updatedAt", "version"}
    \cup (IF Has(data.title) /\ Val(data.title) # old.title THEN {"slug"} ELSE {})
    \cup (IF data.status = Some("published") /\ old.status # "published"
          THEN {"publishedAt"} ELSE {})

\* C16: a successful update changes only the columns of the fields present in
\* the request, plus slug on a title change, updatedAt, version, and
\* publishedAt on a publishing transition; id, organizerId and createdAt
\* never change; version goes up by one whatever the request holds; no other
\* row changes.
C16_UpdateFrame ==
  [][(q'.kind = "service" /\ q'.op = "update" /\ q'.code = OK) =>
       LET id == q'.id
           old == store[id]
           new == store'[id]
       IN  /\ DOMAIN store' = DOMAIN store
           /\ \A other \in DOMAIN store \ {id} : store'[other] = store[other]
           /\ \A f \in DOMAIN old \ MayChange(q'.data, old) : new[f] = old[f]
           /\ new.id = old.id
           /\ new.organizerId = old.organizerId
           /\ new.createdAt = old.createdAt
           /\ new.version = old.version + 1]_vars

\* An update carrying only a visibility has been applied to a fresh event.
C16_Witness ==
  /\ q.kind = "service"
  /\ q.op = "update"
  /\ q.code = OK
  /\ PresentFields(q.data) = {"visibility"}
  /\ store[q.id].visibility = "private"
  /\ store[q.id].version = 2
  /\ store[q.id].status = "draft"


\* C17: a successful delete keeps the row, sets its status to archived and
\* its updatedAt to the time of the call, and changes no other column and no
\* other row; a delete by the owner succeeds also on an archived event, where
\* it changes nothing but updatedAt.
C17_DeleteFrame ==
  [][(q'.kind = "service" /\ q'.op = "delete") =>
       LET id == q'.id
           owned == id \in DOMAIN store
                      /\ store[id].organizerId = q'.organizerId
       IN  /\ owned <=> q'.code = OK
           /\ owned =>
                /\ DOMAIN store' = DOMAIN store
                /\ \A other \in DOMAIN store \ {id} : store'[other] = store[other]
                /\ store'[id].status = "archived"
                /\ store'[id].updatedAt = now'
                /\ store'[id].updatedAt >= store[id].updatedAt
                /\ \A f \in DOMAIN store[id] \ {"status", "updatedAt"} :
                     store'[id][f] = store[id][f]
                /\ store[id].status = "archived" =>
                     \A f \in DOMAIN store[id] \ {"updatedAt"} :
                       store'[id][f] = store[id][f]]_vars

\* A published event at version 2 has been deleted: archived, still version 2.
C17_Witness ==
  /\ q.kind = "service"
  /\ q.op = "delete"
  /\ q.code = OK
  /\ store[q.id].status = "archived"
  /\ store[q.id].version = 2
  /\ store[q.id].publishedAt = 2
  /\ store[q.id].updatedAt = 3


\* The ids a listing returns under some order the database may hand out.
Listed(st, params) ==
  UNION {{findMany(st, params, ord).data[k].id :
            k \in 1..Len(findMany(st, params, ord).data)} :
         ord \in Orders(st, params)}

\* Listings constrained to published events: a findMany with status
\* published, and the listings of anonymous callers and of callers with role
\* user.
PublishedListings ==
  {[NoParams EXCEPT !.status = Some("published")],
   constrainedParams(NoParams, None, None),
   constrainedParams([NoParams EXCEPT !.status = Some("archived")],
                     Some("bob"), Some("user"))}

\* C18: an event deleted with success is in no listing constrained to
\* status published, right after the delete and after any later update and
\* delete calls.
C18_ArchivedNeverListed ==
  \A id \in Deleted(q) :
    \A ps \in PublishedListings : id \notin Listed(store, ps)


(***************************************************************************)
(* Creation through POST /api/events: the body as sent, parsed by          *)
(* createEventSchema, then EventService.create; and the publishing PUT.    *)
(***************************************************************************)

\* Keys of createEventSchema (part_013 lines 51-75) this model carries.
CreateKeys ==
  {"title", "description", "excerpt", "startDateTime", "endDateTime",
   "capacity", "categoryId", "price", "visibility", "metadata"}

\* A parse that keeps the keys the schema does not know.
parsePassthrough(body) == body

\* createEventSchema.parse: a z.object drops the keys it does not declare.
parse(body) == [k \in DOMAIN body \cap CreateKeys |-> body[k]]

\* Bodies as sent: the schema's fields, with or without further keys.
RawCreateBodies ==
  {d @@ x : d \in CreatePayloads,
            x \in {<<>>,
                   [status |-> "published"],
                   [version |-> 7, currentAttendees |-> 5],
                   [status |-> "published", organizerId |-> "bob",
                    slug |-> <<"c">>]}}

HandleRawPOST ==
  \E req \in Requests, body \in RawCreateBodies :
    /\ NextId(store) \in EventIds
    /\ Handled("POST", req, NextId(store),
               validateRequestBody(createEventSchema(body), store,
                                   POST(store, req, parse(body), now + 1)))

HandlePublishPUT ==
  \E req \in Requests, id \in EventIds :
    Handled("PUT", req, id,
            PUT(store, req, id, [NoFields EXCEPT !.status = Some("published")],
                now + 1))

NextCreate ==
  \/ HandleRawPOST
  \/ HandlePublishPUT

SpecCreate == InitRoute /\ [][NextCreate]_vars

\* C19: an event just created has version 1, status draft, currentAttendees
\* 0, the creating caller as organizerId and the slug derived from its title,
\* whatever the body held; an update {status: published} by its organizer
\* then yields version 2 and a publishedAt, with title and slug as before.
C19_CreateDefaults ==
  /\ (q.kind = "route" /\ q.handler = "POST" /\ q.resp.status = 201) =>
       LET e == store[q.id]
       IN  /\ e.version = 1
           /\ e.status = "draft"
           /\ e.currentAttendees = 0
           /\ Some(e.organizerId) = extractOrganizerId(q.req)
           /\ e.slug = generateSlug(e.title)
           /\ e.publishedAt = 0
           /\ q.resp.data = Some(e)
  /\ (/\ q.kind = "route"
      /\ q.handler = "PUT"
      /\ q.resp.status = 200
      /\ Val(q.pre).version = 1) =>
       LET e == store[q.id]
           pre == Val(q.pre)
       IN  /\ Some(e.organizerId) = extractOrganizerId(q.req)
           /\ e.version = 2
           /\ e.status = "published"
           /\ e.publishedAt = now
           /\ e.title = pre.title
           /\ e.slug = pre.slug
           /\ q.resp.data = Some(e)

\* A created event has been published by its organizer.
C19_Witness ==
  /\ q.kind = "route"
  /\ q.handler = "PUT"
  /\ q.resp.status = 200
  /\ store[q.id].version = 2
  /\ store[q.id].publishedAt = 2
  /\ store[q.id].createdAt = 1


\* C20: a PUT or DELETE of /api/events/[id] by an authenticated caller who is
\* denied the write on an existing event is answered 403 with code FORBIDDEN,
\* one on an id that does not exist 404 with code NOT_FOUND; a PUT that
\* succeeds is answered 200 with the updated event and a DELETE that succeeds
\* 204.
C20_DeniedWriteIs403 ==
  (q.kind = "route" /\ q.handler \in {"PUT", "DELETE"} /\ Has(q.req.token)) =>
    LET user == Val(authenticateRequest(q.req))
        before == IF Has(q.pre) THEN (q.id :> Val(q.pre)) ELSE <<>>
        access == verifyEventAccess(before, q.id, user.userId, user.role,
                    IF q.handler = "PUT" THEN "update" ELSE "delete")
    IN  /\ access = FORBIDDEN =>
             q.resp.status = 403 /\ q.resp.code = FORBIDDEN
        /\ access = NOT_FOUND =>
             q.resp.status = 404 /\ q.resp.code = NOT_FOUND
        /\ (Has(q.pre) /\ store[q.id] # Val(q.pre)) =>
             IF q.handler = "PUT"
             THEN q.resp.status = 200 /\ q.resp.data = Some(store[q.id])
             ELSE q.resp.status = 204


\* C21: a PUT or DELETE of /api/events/[id] that carries no valid token is
\* answered 401 and leaves every event of the store as it was.
C21_NoTokenIs401 ==
  [][(/\ q'.kind = "route"
      /\ q'.handler \in {"PUT", "DELETE"}
      /\ ~Has(authenticateRequest(q'.req)))
     => (q'.resp.status = 401 /\ store' = store)]_vars


(***************************************************************************)
(* POST /api/events and PUT /api/events/[id] from the body as received:    *)
(* validation first, then the sender's identity, then the service.         *)
(***************************************************************************)
\* Bodies as received: one start, every end, and updates that give either,
\* both or neither date.
ReceivedCreateBodies ==
  {b \in DatedCreateBodies : b.title = <<"a", "-", "b">> /\ b.startDateTime = 2}

ReceivedUpdateBodies ==
  {b \in DatedUpdateBodies : b.startDateTime \in {None, Some(2)}}

ValidatedPOST(st, req, body, t) ==
  validateRequestBody(createEventSchema(body), st, POST(st, req, body, t))

ValidatedPUT(st, req, id, body, t) ==
  validateRequestBody(updateEventSchema(body), st, PUT(st, req, id, body, t))

HandleValidatedPOST ==
  \E req \in Requests, body \in ReceivedCreateBodies :
    /\ NextId(store) \in EventIds
    /\ Handled("POST", req, NextId(store),
               ValidatedPOST(store, req, body, now + 1))

HandleValidatedPUT ==
  \E req \in Requests, id \in EventIds, body \in ReceivedUpdateBodies :
    Handled("PUT", req, id, ValidatedPUT(store, req, id, body, now + 1))

NextValidated ==
  \/ HandleValidatedPOST
  \/ HandleValidatedPUT

SpecValidated == InitRoute /\ [][NextValidated]_vars

\* The answer to a body that failed its schema: 400, VALIDATION_ERROR, at
\* least one detail with a field and a message, and the store as it was.
Rejected(ans, st) ==
  /\ ans.resp.status = 400
  /\ ans.resp.code = "VALIDATION_ERROR"
  /\ Len(ans.resp.details) > 0
  /\ \A i \in 1..Len(ans.resp.details) :
       DOMAIN ans.resp.details[i] = {"field", "message"}
  /\ ans.store = st

\* C22: a POST or PUT whose body fails the create or update schema is
\* answered 400 with code VALIDATION_ERROR and a non-empty list of details,
\* whoever sent it (token or none, owner or not) and whether or not the event
\* exists, and the store is unchanged; no response with that code leaves the
\* store changed.
C22_ValidationFirst ==
  /\ \A req \in Requests :
       /\ \A body \in ReceivedCreateBodies :
            ~createEventSchema(body) =>
              Rejected(ValidatedPOST(store, req, body, now + 1), store)
       /\ \A id \in EventIds, body \in ReceivedUpdateBodies :
            ~updateEventSchema(body) =>
              Rejected(ValidatedPUT(store, req, id, body, now + 1), store)
  /\ (q.kind = "route" /\ q.resp.code = "VALIDATION_ERROR") =>
       /\ q.resp.status = 400
       /\ Len(q.resp.details) > 0
       /\ Has(q.pre) => store[q.id] = Val(q.pre)
       /\ ~Has(q.pre) => q.id \notin DOMAIN store

\* A request without token or header, with a body that fails the schema, has
\* been answered while the store holds an event.
C22_Witness ==
  /\ q.kind = "route"
  /\ q.resp.code = "VALIDATION_ERROR"
  /\ ~Has(q.req.token)
  /\ ~Has(q.req.legacy)
  /\ store # <<>>


(***************************************************************************)
(* Two update calls, each made once, running one beside the other from a   *)
(* store of two events; q keeps the store they started from and the        *)
(* arguments of each.                                                      *)
(***************************************************************************)
PairStore ==
  (1 :> NewEvent(1, NumberedData(1), "alice", 0))
    @@ (2 :> NewEvent(2, NumberedData(2), "bob", 0))

PairPlans ==
  [Procs -> [id : EventIds, data : UpdatePayloads, organizerId : Users]]

InitPair ==
  /\ store = PairStore
  /\ now = 0
  /\ calls = [p \in Procs |-> Idle]
  /\ last = [okUpdates |-> [id \in EventIds |-> 0], res |-> NoResult]
  /\ q \in {[kind |-> "pair", base |-> PairStore, plan |-> plan, started |-> {}] :
              plan \in PairPlans}

PairBegin(p) ==
  /\ p \notin q.started
  /\ UpdateStart(p, q.plan[p].id, q.plan[p].data, q.plan[p].organizerId)
  /\ q' = [q EXCEPT !.started = @ \cup {p}]

NextPair ==
  \E p \in Procs :
    \/ PairBegin(p)
    \/ UpdateCheckSlug(p)
    \/ UpdateWrite(p)
    \/ UpdateReread(p)

SpecPair == InitPair /\ [][NextPair]_vars

\* Both calls of the pair have ended.
PairDone == q.started = Procs /\ \A p \in Procs : calls[p].pc = "idle"

\* The two calls made one after the other, first then second.
InOrder(first, second) ==
  LET a == q.plan[first]
      b == q.plan[second]
      ra == update(q.base, a.id, a.data, a.organizerId, 1)
      rb == update(ra.store, b.id, b.data, b.organizerId, 2)
  IN  [code |-> (first :> ra.code) @@ (second :> rb.code), store |-> rb.store]

\* A store without its clock readings: updatedAt dropped, publishedAt kept
\* as set or not set.
Timeless(st) ==
  [i \in DOMAIN st |->
     [st[i] EXCEPT !.updatedAt = 0,
                   !.publishedAt = IF @ = 0 THEN 0 ELSE 1]]

\* The call that has just ended, known by the event its result names.
Ended(p) == last'.res # last.res /\ last'.res.id = q.plan[p].id

\* The updates of the pair are on different events and, when OnlyApart, no
\* new title of one gives a slug the other event holds or is given.
NewSlugs(p) ==
  IF Has(q.plan[p].data.title)
  THEN {generateSlug(Val(q.plan[p].data.title))} ELSE {}

Apart(p, o) ==
  NewSlugs(p) \cap ({q.base[q.plan[o].id].slug} \cup NewSlugs(o)) = {}

IndependentEnd(pre) ==
  (pre /\ PairDone) =>
    /\ Timeless(store) = Timeless(InOrder("p1", "p2").store)
    /\ Timeless(store) = Timeless(InOrder("p2", "p1").store)

IndependentStep(pre) ==
  pre =>
    /\ \A p \in Procs :
         Ended(p) =>
           /\ last'.res.code = InOrder("p1", "p2").code[p]
           /\ last'.res.code = InOrder("p2", "p1").code[p]
    /\ \A i \in DOMAIN store :
         store'[i] # store[i] =>
           \E p \in Procs : calls[p].pc = "upd_write" /\ calls[p].id = i

DifferentEvents ==
  /\ q.plan["p1"].id # q.plan["p2"].id
  /\ \A p \in Procs : q.plan[p].id \in DOMAIN q.base

\* C23 as stated: any two updates of different events leave each event to
\* its own update, and the outcome of each and the final store (clock
\* readings apart) are those of either order, whatever the interleaving.
C23_AnyTwoUpdatesIndependent ==
  /\ [](IndependentEnd(DifferentEvents))
  /\ [][IndependentStep(DifferentEvents)]_vars

\* C23: the same, for two updates of different events of which neither gives
\* its event a title whose slug the other event holds or is given by the
\* other update.
C23_UpdatesIndependent ==
  /\ [](IndependentEnd(DifferentEvents /\ Apart("p1", "p2") /\ Apart("p2", "p1")))
  /\ [][IndependentStep(DifferentEvents /\ Apart("p1", "p2")
                          /\ Apart("p2", "p1"))]_vars

\* Two successful updates of different events, one of them a change of
\* title, have both ended.
C23_Witness ==
  /\ q.kind = "pair"
  /\ PairDone
  /\ DifferentEvents
  /\ Apart("p1", "p2") /\ Apart("p2", "p1")
  /\ NewSlugs("p1") # {}
  /\ store[1].version = 2
  /\ store[2].version = 2


\* The value the column of field f holds once the request data is written.
Written(data, f) ==
  IF f \in {"capacity", "price", "categoryId"} THEN data[f] ELSE Val(data[f])

\* Both calls of the pair were updates of one event, both succeeded, and
\* they set disjoint sets of fields.
BothWrote ==
  /\ q.kind = "pair"
  /\ PairDone
  /\ q.plan["p1"].id = q.plan["p2"].id
  /\ last.okUpdates[q.plan["p1"].id] = 2
  /\ PresentFields(q.plan["p1"].data) \cap PresentFields(q.plan["p2"].data) = {}

\* C24: when two successful updates of one event set disjoint sets of fields,
\* the stored event holds the values of both once both have ended, however
\* their steps interleaved.
C24_NoLostUpdate ==
  BothWrote =>
    \A p \in Procs :
      \A f \in PresentFields(q.plan[p].data) :
        store[q.plan[p].id][Column(f)] = Written(q.plan[p].data, f)

\* A change of title and a publication of event 1 have both succeeded.
C24_Witness ==
  /\ BothWrote
  /\ Has(q.plan["p1"].data.title)
  /\ q.plan["p2"].data.status = Some("published")
  /\ store[1].version = 3
  /\ store[1].title # q.base[1].title


(***************************************************************************)
(* GET /api/events: the query string, sanitized and parsed by              *)
(* eventQuerySchema, then findManyWithAuthorization.                       *)
(***************************************************************************)

\* The hasNFT parameter as the query string may carry it.
QueryStrings == [hasNFT : {None, Some(""), Some("true"), Some("false")}]

\* sanitizeQueryParams, lines 104-118: trimmed values, the empty ones dropped.
sanitizeQueryParams(searchParams) ==
  [k \in DOMAIN searchParams |->
     IF Truthy(searchParams[k]) THEN searchParams[k] ELSE None]

\* eventQuerySchema.parse, part_013 lines 102-122: z.coerce.boolean() is
\* Boolean(text), true for every text but the empty one; page, limit, sortBy
\* and sortOrder take their defaults.
eventQuerySchema(queryParams) ==
  [NoParams EXCEPT
     !.page = Some(1), !.limit = Some(20),
     !.sortBy = Some("startDate"), !.sortOrder = Some("asc"),
     !.hasNFT = IF Has(queryParams.hasNFT)
                THEN Some(Val(queryParams.hasNFT) # "") ELSE None]

\* GET /api/events, route.test.ts lines 205-230.
HandleList ==
  /\ q.kind = "GET /api/events"
  /\ ~Has(q.result)
  /\ LET validatedParams == eventQuerySchema(sanitizeQueryParams(q.query))
         user == optionalAuth(q.req)
         userId == IF Has(user) THEN Some(Val(user).userId) ELSE None
         userRole == IF Has(user) THEN Some(Val(user).role) ELSE None
     IN  \E ord \in Orders(store, constrainedParams(validatedParams, userId,
                                                      userRole)) :
           q' = [q EXCEPT !.result =
                   Some(findManyWithAuthorization(store, validatedParams,
                                                  userId, userRole, ord))]
  /\ UNCHANGED <<store, now, calls, last>>

\* Calls of findMany with the filter, alone or beside a search.
NFTParams ==
  {[NoParams EXCEPT !.hasNFT = h, !.search = t] :
     h \in {Some(TRUE), Some(FALSE)}, t \in {None, Some(<<"a">>)}}

InitNFT ==
  InitListing(ListStores,
    {[kind |-> "GET /api/events", req |-> req, query |-> query,
      result |-> None] : req \in Requests, query \in QueryStrings}
    \cup {Listing("findMany", ps, None, None) : ps \in NFTParams})

NextNFT ==
  \/ HandleList
  \/ FindMany

SpecNFT == InitNFT /\ [][NextNFT]_vars

\* What the caller asked of the filter: by value in a call of findMany, by
\* text in a request.
AskedNFT ==
  IF q.kind = "findMany" THEN q.params.hasNFT
  ELSE IF q.query.hasNFT = Some("true") THEN Some(TRUE)
  ELSE IF q.query.hasNFT = Some("false") THEN Some(FALSE)
  ELSE None

\* C25: a listing asked with hasNFT true returns only events whose metadata
\* is not empty, and one asked with hasNFT false only events whose metadata
\* is null or empty, in a call of findMany and in a GET /api/events that
\* carries the value as the text true or false.
C25_HasNFTFilter ==
  (q.kind \in {"findMany", "GET /api/events"} /\ Has(q.result)) =>
    \A k \in 1..Len(Val(q.result).data) :
      LET m == Val(q.result).data[k].metadata
      IN  /\ AskedNFT = Some(TRUE) => (m # NULL /\ JSON_LENGTH(m) > 0)
          /\ AskedNFT = Some(FALSE) => (m = NULL \/ JSON_LENGTH(m) = 0)


\* C26: the event a successful update returns has the version the call read
\* plus one and holds the values of the fields the call set, whatever other
\* update of the same event ran between the call's write and its re-read.
C26_ReturnedVersion ==
  [][\A p \in Procs :
       (calls[p].pc = "upd_reread" /\ calls'[p].pc = "idle") =>
         LET c == calls[p]
             returned == Val(last'.res.returned)
         IN  /\ last'.res.code = OK
             /\ returned.version = c.existing.version + 1
             /\ \A f \in PresentFields(c.data) :
                  returned[Column(f)] = Written(c.data, f)]_vars


(***************************************************************************)
(* The authorization utilities (authorization.ts), each called once for a  *)
(* user, event 1 and an operation, beside EventService.verifyEventAccess.  *)
(***************************************************************************)

\* ROLE_PERMISSIONS, lines 25-45.
ROLE_PERMISSIONS(userRole) ==
  IF userRole = "user" THEN {"event:read"}
  ELSE IF userRole = "organizer"
       THEN {"event:create", "event:read", "event:update", "event:delete",
             "event:publish"}
  ELSE IF userRole = "admin"
       THEN {"event:create", "event:read", "event:update", "event:delete",
             "event:publish", "event:moderate", "admin:all"}
  ELSE {}

\* hasPermission, lines 50-53.
hasPermission(userRole, permission) ==
  \/ permission \in ROLE_PERMISSIONS(userRole)
  \/ "admin:all" \in ROLE_PERMISSIONS(userRole)

\* The access decision without the permission of the role.
canAccessEventOwnerOnly(st, user, eventId, operation) ==
  /\ Exists(st, eventId)
  /\ \/ user.role = "admin"
     \/ (operation = "read" /\ findById(st, eventId).visibility = "public"
                            /\ findById(st, eventId).status = "published")
     \/ findById(st, eventId).organizerId = user.userId

\* canAccessEvent, lines 71-117.
canAccessEvent(st, user, eventId, operation) ==
  LET event == findById(st, eventId)
  IN  IF ~Exists(st, eventId) THEN FALSE
      ELSE IF user.role = "admin" THEN TRUE
      ELSE IF operation = "read"
           THEN IF event.visibility = "public" /\ event.status = "published"
                THEN TRUE
                ELSE event.organizerId = user.userId
                       /\ hasPermission(user.role, "event:read")
      ELSE IF operation \in {"update", "delete", "publish"}
           THEN event.organizerId = user.userId
                  /\ hasPermission(user.role, "event:" \o operation)
      ELSE FALSE

\* requireEventAccess, lines 122-148: OK when it returns the event.
requireEventAccess(st, user, eventId, operation) ==
  IF ~Exists(st, eventId) THEN NOT_FOUND
  ELSE IF ~canAccessEvent(st, user, eventId, operation) THEN FORBIDDEN
  ELSE OK

\* verifyEventOwnership, lines 153-182: OK when it returns the event.
verifyEventOwnership(st, user, eventId) ==
  IF ~Exists(st, eventId) THEN NOT_FOUND
  ELSE IF user.role = "admin" THEN OK
  ELSE IF findById(st, eventId).organizerId # user.userId THEN FORBIDDEN
  ELSE OK

InitAuthorization ==
  /\ store \in {<<>>} \cup {(1 :> r) : r \in AccessRows}
  /\ now = 0
  /\ calls = [p \in Procs |-> Idle]
  /\ last = [okUpdates |-> [id \in EventIds |-> 0], res |-> NoResult]
  /\ q \in [kind : {"authorization"}, user : Payloads, operation : Operations,
            canAccess : {None}, required : {None}, ownership : {None},
            service : {None}]

Decided(field, value) ==
  /\ q.kind = "authorization"
  /\ ~Has(q[field])
  /\ q' = [q EXCEPT ![field] = Some(value)]
  /\ UNCHANGED <<store, now, calls, last>>

CanAccessEvent ==
  Decided("canAccess", canAccessEvent(store, q.user, 1, q.operation))

RequireEventAccess ==
  Decided("required", requireEventAccess(store, q.user, 1, q.operation))

VerifyEventOwnership ==
  Decided("ownership", verifyEventOwnership(store, q.user, 1))

VerifyServiceAccess ==
  Decided("service",
          verifyEventAccess(store, 1, q.user.userId, q.user.role, q.operation))

NextAuthorization ==
  \/ CanAccessEvent
  \/ RequireEventAccess
  \/ VerifyEventOwnership
  \/ VerifyServiceAccess

SpecAuthorization == InitAuthorization /\ [][NextAuthorization]_vars

\* C27: verifyEventOwnership throws NOT_FOUND for a missing event, returns
\* the event to an admin and to an owner of role organizer, throws FORBIDDEN
\* for a non-owner who is not admin, and rejects an owner of role user.
C27_OwnershipByRole ==
  (q.kind = "authorization" /\ Has(q.ownership)) =>
    LET missing == 1 \notin DOMAIN store
        owner == ~missing /\ store[1].organizerId = q.user.userId
        decision == Val(q.ownership)
    IN  /\ missing => decision = NOT_FOUND
        /\ (~missing /\ q.user.role = "admin") => decision = OK
        /\ (owner /\ q.user.role = "organizer") => decision = OK
        /\ (~missing /\ ~owner /\ q.user.role # "admin") => decision = FORBIDDEN
        /\ (owner /\ q.user.role = "user") => decision # OK

\* C28: for every event, caller, role and operation, canAccessEvent is true,
\* and requireEventAccess returns the event, exactly when verifyEventAccess
\* returns it; requireEventAccess and verifyEventAccess both answer a missing
\* event with NOT_FOUND and a refusal with FORBIDDEN.
C28_DecisionsAgree ==
  (/\ q.kind = "authorization"
   /\ Has(q.canAccess) /\ Has(q.required) /\ Has(q.service)) =>
    /\ Val(q.canAccess) <=> Val(q.service) = OK
    /\ Val(q.required) = Val(q.service)
    /\ 1 \notin DOMAIN store => Val(q.service) = NOT_FOUND

\* All three have decided on a write by the owner, whose role is user, and
\* refused it.
C28_Witness ==
  /\ q.kind = "authorization"
  /\ Has(q.canAccess) /\ Has(q.required) /\ Has(q.service)
  /\ 1 \in DOMAIN store
  /\ store[1].organizerId = q.user.userId
  /\ q.user.role = "user"
  /\ q.operation = "publish"
  /\ Val(q.service) = FORBIDDEN


\* filterEventsByPermission, authorization.ts lines 187-214: the events kept
\* for user, a JWT payload or none.
filterEventsByPermission(rows, user) ==
  SelectSeq(rows,
    LAMBDA event :
      \/ event.visibility = "public" /\ event.status = "published"
      \/ /\ Has(user)
         /\ \/ Val(user).role = "admin"
            \/ event.organizerId = Val(user).userId)

\* The caller of a listing as the single-event rules see them: the payload
\* when the id and the role are both given, else nobody.
ListingCaller ==
  IF Truthy(q.userId) /\ Truthy(q.userRole)
  THEN Some([userId |-> Val(q.userId), role |-> Val(q.userRole)])
  ELSE None

\* C29: every event findManyWithAuthorization returns to a caller, with any
\* filters, is one verifyEventAccess lets that caller read and one
\* filterEventsByPermission keeps for that caller.
C29_ListingSound ==
  (q.kind = "findManyWithAuthorization" /\ Has(q.result)) =>
    LET data == Val(q.result).data
        user == ListingCaller
    IN  /\ \A k \in 1..Len(data) :
             verifyEventAccess(store, data[k].id,
               IF Has(user) THEN Val(user).userId ELSE "",
               IF Has(user) THEN Val(user).role ELSE "user", "read") = OK
        /\ filterEventsByPermission(data, user) = data


\* A call ends in this step: a process goes back to idle, or begins and ends
\* at once.
CallEnds ==
  \/ \E p \in Procs : calls[p].pc # "idle" /\ calls'[p].pc = "idle"
  \/ now' # now /\ calls' = calls

\* C30: an update or delete that ends in NOT_FOUND, FORBIDDEN or CONFLICT has
\* written nothing: the step that raises the error leaves the store as it
\* was, the call had not written before it, and the caller gets the error and
\* no event.
C30_FailedCallWritesNothing ==
  [][(/\ CallEnds
      /\ last'.res.op \in {"update", "delete"}
      /\ last'.res.code \in {NOT_FOUND, FORBIDDEN, CONFLICT})
     => /\ store' = store
        /\ ~Has(last'.res.returned)
        /\ \A p \in Procs :
             (calls[p].pc # "idle" /\ calls'[p].pc = "idle") =>
               calls[p].pc \notin {"upd_write", "upd_reread", "del_write"}]_vars

\* An update has been refused for a slug conflict, and a delete for the
\* organizer, on a store that holds events.
C30_Witness ==
  /\ q = NoQuery
  /\ store # <<>>
  /\ last.res.op = "update"
  /\ last.res.code = CONFLICT
  /\ \A id \in DOMAIN store : store[id].version = 1 /\ store[id].status = "draft"

====
